---- MODULE Spec2Model ----
(***************************************************************************)
(* ViralQuill X API service: the quota tracker (quota-tracker.ts), the      *)
(* retry executor (retry.ts) and the API client (client.ts).               *)
(*                                                                         *)
(* Numbers.  The source computes with IEEE doubles.  Counters, caps and     *)
(* delays are whole numbers and are integers here; where the source        *)
(* divides, or multiplies by a fraction, the model computes the doubles    *)
(* (see RoundDouble).  Fractions of the configuration are written in       *)
(* hundredths (reservePercent 0.1 is 10, warningThreshold 0.7 is 70) and   *)
(* stand for the double of that literal; so is backoffMultiplier (2 is     *)
(* 200, 1.5 is 150).  Time is an integer clock; a calendar month is        *)
(* MonthLen ticks long.                                                    *)
(***************************************************************************)
EXTENDS Integers, Sequences, FiniteSets, TLC

VARIABLES
    quota,      \* the QuotaTracker instance (QuotaTracker's private fields)
    now,        \* the clock: what new Date() / Date.now() returns
    last,       \* the most recent tracker call: its name, argument, return value, the
                \* tracker before it (pre) and the clock at the call (at)
    steps,      \* number of calls and clock ticks so far (bounded by MaxOps)
    retry,      \* the activation of withRetry of each caller
    active,     \* the callers that run
    client,     \* the XApiClient instance: mockMode, retryConfig, userAccessToken
    rateLimitStates,  \* XApiClient.rateLimitStates: endpoint -> RateLimitState
    ops,        \* the client operation each caller has in progress
    mock        \* a second client, in mock mode, given the same calls

vars == <<quota, now, last, steps, retry, active, client, rateLimitStates, ops, mock>>
clientVars == <<client, rateLimitStates, ops, mock>>

(***************************************************************************)
(* Bounds of the model.                                                    *)
(***************************************************************************)
MonthLen == 3
MaxOps == 3
MaxRetries == 2
NumProcs == 2

Procs == 1 .. NumProcs

Max(a, b) == IF a >= b THEN a ELSE b
Abs(a) == IF a < 0 THEN 0 - a ELSE a
Min(a, b) == IF a <= b THEN a ELSE b

RECURSIVE Pow(_, _)
\* b to the power e, for integers b and e >= 0 (Math.pow of doubles is MathPow).
Pow(b, e) == IF e <= 0 THEN 1 ELSE b * Pow(b, e - 1)

(***************************************************************************)
(* quota-tracker.ts                                                        *)
(***************************************************************************)

\* DEFAULT_QUOTA_CONFIG; fractions in hundredths.
DEFAULT_QUOTA_CONFIG ==
    [monthlyReadCap |-> 15000, monthlyWriteCap |-> 50000, reservePercent |-> 10,
     warningThreshold |-> 70, criticalThreshold |-> 90]

\* A second configuration, as a caller may pass to the constructor.
SmallQuotaConfig ==
    [monthlyReadCap |-> 10, monthlyWriteCap |-> 3, reservePercent |-> 20,
     warningThreshold |-> 50, criticalThreshold |-> 80]

\* The tracker configuration of the client runs: 4 of the 5 reads are outside the
\* reserve, and 2 writes.
ClientQuotaConfig ==
    [monthlyReadCap |-> 5, monthlyWriteCap |-> 2, reservePercent |-> 20,
     warningThreshold |-> 50, criticalThreshold |-> 80]

\* One of the 2 reads is outside the reserve, and there is 1 write.
RolloverQuotaConfig ==
    [monthlyReadCap |-> 2, monthlyWriteCap |-> 1, reservePercent |-> 50,
     warningThreshold |-> 50, criticalThreshold |-> 80]

\* new QuotaTracker({ monthlyReadCap: 0 }): the constructor takes any number.
ZeroCapQuotaConfig == [DEFAULT_QUOTA_CONFIG EXCEPT !.monthlyReadCap = 0]

GetNextResetDateThisMonth(t) == (t \div MonthLen) * MonthLen

\* getNextResetDate(): new Date(year, month + 1, 1), the first instant of the next month.
GetNextResetDate(t) == ((t \div MonthLen) + 1) * MonthLen

\* constructor(config)
NewQuotaTracker(cfg, t) ==
    [readsUsed |-> 0, writesUsed |-> 0, cacheHits |-> 0, totalRequests |-> 0,
     activeUsers |-> 1, config |-> cfg, resetDate |-> GetNextResetDate(t)]

\* recordReads(count)
RecordReads(q, count) ==
    [q EXCEPT !.readsUsed = @ + count, !.totalRequests = @ + count]

\* recordWrites(count)
RecordWrites(q, count) ==
    [q EXCEPT !.writesUsed = @ + count, !.totalRequests = @ + count]

\* recordCacheHit()
RecordCacheHit(q) ==
    [q EXCEPT !.cacheHits = @ + 1, !.totalRequests = @ + 1]

\* The doubles of the tracker's arithmetic (/, -, *, toFixed, Math.round,
\* Math.floor).  A natural number too large for the integers of the model is held as
\* its digits to base LimbBase, the least significant first; a double is m * 2^e
\* with m such a number of at most 53 bits.  The doubles here are not negative: where
\* the source can compute with a negative number, the sign is dealt with apart.
LimbBase == 32768

RECURSIVE BitLen(_)
\* The number of binary digits of n >= 0.
BitLen(n) ==
    IF n = 0 THEN 0
    ELSE IF n >= 256 THEN 8 + BitLen(n \div 256)
    ELSE 1 + BitLen(n \div 2)

LimbBits == BitLen(LimbBase - 1)

\* 2^i for the i within a digit.
TwoTo == [i \in 0 .. LimbBits |-> Pow(2, i)]

RECURSIVE BigOfInt(_)
BigOfInt(n) == IF n = 0 THEN <<>> ELSE <<n % LimbBase>> \o BigOfInt(n \div LimbBase)

RECURSIVE IntOfBig(_)
IntOfBig(a) == IF a = <<>> THEN 0 ELSE a[1] + LimbBase * IntOfBig(Tail(a))

RECURSIVE BigTrim(_)
\* a without its leading zero digits.
BigTrim(a) ==
    IF a = <<>> THEN <<>>
    ELSE IF a[Len(a)] = 0 THEN BigTrim(SubSeq(a, 1, Len(a) - 1)) ELSE a

BigBitLen(a) ==
    LET t == BigTrim(a)
    IN  IF t = <<>> THEN 0 ELSE LimbBits * (Len(t) - 1) + BitLen(t[Len(t)])

RECURSIVE BigMulSmall(_, _, _)
\* a * k + carry, for k and carry below LimbBase.
BigMulSmall(a, k, carry) ==
    IF a = <<>> THEN (IF carry = 0 THEN <<>> ELSE <<carry>>)
    ELSE LET t == a[1] * k + carry
         IN  <<t % LimbBase>> \o BigMulSmall(Tail(a), k, t \div LimbBase)

RECURSIVE BigAdd(_, _, _)
\* a + b + carry
BigAdd(a, b, carry) ==
    IF b = <<>> /\ carry = 0 THEN a
    ELSE IF a = <<>> /\ carry = 0 THEN b
    ELSE IF a = <<>> /\ b = <<>> THEN <<carry>>
    ELSE LET t == (IF a = <<>> THEN 0 ELSE a[1]) + (IF b = <<>> THEN 0 ELSE b[1]) + carry
         IN  <<t % LimbBase>> \o BigAdd(IF a = <<>> THEN <<>> ELSE Tail(a),
                                        IF b = <<>> THEN <<>> ELSE Tail(b), t \div LimbBase)

RECURSIVE BigSub(_, _, _)
\* a - b - borrow, for a >= b + borrow.
BigSub(a, b, borrow) ==
    IF a = <<>> THEN <<>>
    ELSE LET t == a[1] - (IF b = <<>> THEN 0 ELSE b[1]) - borrow
         IN  <<t % LimbBase>> \o BigSub(Tail(a), IF b = <<>> THEN <<>> ELSE Tail(b),
                                        IF t < 0 THEN 1 ELSE 0)

RECURSIVE BigMul(_, _)
\* a * b
BigMul(a, b) ==
    IF a = <<>> \/ b = <<>> THEN <<>>
    ELSE IF Len(b) > Len(a) THEN BigMul(b, a)
    ELSE IF Len(b) = 1 THEN BigMulSmall(a, b[1], 0)
    ELSE BigAdd(BigMulSmall(a, b[1], 0), <<0>> \o BigMul(a, Tail(b)), 0)

\* One digit d of a long division by k, 0 < k < 2^26, with the remainder r < k so
\* far: the digit is taken whole when k is below 2^16, and five binary digits at a
\* time when it is not.
DivLimb(r, d, k) ==
    IF k < 65536
    THEN [q |-> (r * LimbBase + d) \div k, r |-> (r * LimbBase + d) % k]
    ELSE LET t1 == r * 32 + (d \div 1024)
             t2 == (t1 % k) * 32 + ((d \div 32) % 32)
             t3 == (t2 % k) * 32 + (d % 32)
         IN  [q |-> (t1 \div k) * 1024 + (t2 \div k) * 32 + (t3 \div k), r |-> t3 % k]

RECURSIVE BigDivMod(_, _)
\* The quotient q and the remainder r of a by k, for 0 < k < 2^26.
BigDivMod(a, k) ==
    IF a = <<>> THEN [q |-> <<>>, r |-> 0]
    ELSE LET hi == BigDivMod(Tail(a), k)
             lo == DivLimb(hi.r, a[1], k)
         IN  [q |-> <<lo.q>> \o hi.q, r |-> lo.r]

\* a shifted left by n binary digits.
BigShiftLeft(a, n) ==
    [i \in 1 .. (n \div LimbBits) |-> 0] \o BigMulSmall(a, TwoTo[n % LimbBits], 0)

\* a shifted right by n binary digits: the quotient q, and whether a digit that was
\* shifted out is not 0.
BigShiftRight(a, n) ==
    LET drop == Min(n \div LimbBits, Len(a))
        low == TwoTo[n % LimbBits]
        high == LimbBase \div low
        b == SubSeq(a, drop + 1, Len(a))
    IN  [q |-> BigTrim([i \in 1 .. Len(b) |->
                          (b[i] \div low)
                            + (IF i < Len(b) THEN (b[i + 1] % low) * high ELSE 0)]),
         sticky |-> (b # <<>> /\ b[1] % low # 0) \/ \E i \in 1 .. drop : a[i] # 0]

\* The double nearest to n * 2^e (to x * 2^e for some x in (n, n + 1) if inexact),
\* a tie going to the even one: the rounding of every operation on doubles.
RoundDouble(n, e, inexact) ==
    LET s == BigBitLen(n) - 53
        \* a1 is n without its last s - 1 binary digits: the last digit left is the
        \* half, the one before it tells whether the quotient is odd.
        Nearest(a1) ==
            LET half == a1.q # <<>> /\ a1.q[1] % 2 = 1
                odd == a1.q # <<>> /\ (a1.q[1] \div 2) % 2 = 1
                up == half /\ (a1.sticky \/ inexact \/ odd)
            IN  [m |-> BigAdd(BigShiftRight(a1.q, 1).q, IF up THEN <<1>> ELSE <<>>, 0),
                 e |-> e + s]
    IN  IF s <= 0 THEN [m |-> BigTrim(n), e |-> e]
        ELSE Nearest(BigShiftRight(n, s - 1))

\* The double of an integer n >= 0 (every integer of the model is below 2^53).
DoubleOfInt(n) == [m |-> BigOfInt(n), e |-> 0]

\* The double a / y for a double a and an integer y, 0 < y < 2^26: a itself when it
\* is 0 or y is 1; otherwise a is scaled up to seven digits at least, so that the
\* quotient has more than 53 binary digits.
DoubleDiv(a, y) ==
    IF a.m = <<>> \/ y = 1 THEN a
    ELSE LET pad == Max(0, 7 - Len(a.m))
             dm == BigDivMod([i \in 1 .. pad |-> 0] \o a.m, y)
         IN  RoundDouble(BigTrim(dm.q), a.e - pad * LimbBits, dm.r # 0)

\* The double a - b, for a >= b.
DoubleSub(a, b) ==
    LET e == Min(a.e, b.e)
    IN  RoundDouble(BigTrim(BigSub(BigShiftLeft(a.m, a.e - e), BigShiftLeft(b.m, b.e - e), 0)),
                    e, FALSE)

\* The double a * b.
DoubleMul(a, b) ==
    IF a.m = <<>> THEN a ELSE RoundDouble(BigMul(a.m, b.m), a.e + b.e, FALSE)

\* Math.floor(a) for a double a >= 0.
DoubleFloor(a) ==
    IF a.e >= 0 THEN IntOfBig(a.m) * Pow(2, a.e)
    ELSE IntOfBig(BigShiftRight(a.m, 0 - a.e).q)

\* The integer nearest to a * 2^e, a tie going to the larger: Math.round of a double
\* m * 2^e (a = m), and the digits toFixed(4) prints of it (a = 10000 m).
RoundHalfUp(a, e) ==
    IF e >= 0 THEN IntOfBig(a) * Pow(2, e)
    ELSE IntOfBig(BigShiftRight(BigAdd(a, BigShiftLeft(<<1>>, 0 - e - 1), 0), 0 - e).q)

\* A fraction of the configuration as the double its literal denotes: 10 hundredths
\* is the double 0.1, the one nearest to 1 / 10.
Fraction(hundredths) == DoubleDiv(DoubleOfInt(hundredths), 100)

\* The literal 1.2: 5404319552844595 * 2^-52.
Double1_2 == [m |-> <<13107, 26214, 19660, 153>>, e |-> -52]

GetCacheHitRateTruncated(q) ==
    IF q.totalRequests = 0 THEN 0 ELSE (10000 * q.cacheHits) \div q.totalRequests

\* getCacheHitRate(): Number((cacheHits / totalRequests).toFixed(4)), in
\* ten-thousandths.  The quotient is a double, and toFixed takes the ten-thousandth
\* nearest to that double, the larger one of two equally near: 3 / 160 is a double
\* just below 0.01875 and gives 0.0187, 1 / 32 is 0.03125 and gives 0.0313.
\* cacheHits is never negative; totalRequests is, after a negative count was recorded,
\* and toFixed then prints the digits of the quotient without its sign after a "-".
GetCacheHitRate(q) ==
    IF q.totalRequests = 0 THEN 0
    ELSE LET d == DoubleDiv(DoubleOfInt(q.cacheHits), Abs(q.totalRequests))
             digits == RoundHalfUp(BigMulSmall(d.m, 10000, 0), d.e)
         IN  IF q.totalRequests < 0 THEN 0 - digits ELSE digits

\* Date.prototype.toISOString(): the instant as an ISO 8601 string.
ToISOString(t) == <<"ISO", t>>

\* getState()
GetState(q) ==
    [monthlyReadsUsed |-> q.readsUsed,
     monthlyReadsLimit |-> q.config.monthlyReadCap,
     monthlyWritesUsed |-> q.writesUsed,
     monthlyWritesLimit |-> q.config.monthlyWriteCap,
     resetsAt |-> ToISOString(q.resetDate),
     cacheHitRate |-> GetCacheHitRate(q)]

\* readUsage >= threshold in getLevel(), for readUsage = readsUsed / monthlyReadCap and
\* a threshold of so many hundredths (1.0 is 100).  With monthlyReadCap 0 the quotient
\* is not a number when readsUsed is 0, and no comparison holds of it; it is Infinity
\* when readsUsed is positive and -Infinity when it is negative.  With any other cap
\* the quotient and the threshold are doubles, each the double nearest to its exact
\* value, so they compare as the exact values do (readsUsed / cap differs from another
\* threshold t / 100 by at least 1 / (100 |cap|), far more than a double is off);
\* the exact values are compared multiplied by 100 cap, which turns the comparison
\* round when the cap is negative.
UsageAtLeast(q, hundredths) ==
    IF q.config.monthlyReadCap = 0 THEN q.readsUsed > 0
    ELSE IF q.config.monthlyReadCap > 0
    THEN q.readsUsed * 100 >= hundredths * q.config.monthlyReadCap
    ELSE q.readsUsed * 100 <= hundredths * q.config.monthlyReadCap

GetLevelExactlyFull(q) ==
    IF q.readsUsed = q.config.monthlyReadCap THEN "exhausted"
    ELSE IF UsageAtLeast(q, q.config.criticalThreshold) THEN "critical"
    ELSE IF UsageAtLeast(q, q.config.warningThreshold) THEN "warning"
    ELSE "normal"

\* getLevel(): readUsage = readsUsed / monthlyReadCap against 1.0, the critical and
\* the warning threshold, in this order; normal when none of the three holds, as
\* with a usage that is not a number.
GetLevel(q) ==
    IF UsageAtLeast(q, 100) THEN "exhausted"
    ELSE IF UsageAtLeast(q, q.config.criticalThreshold) THEN "critical"
    ELSE IF UsageAtLeast(q, q.config.warningThreshold) THEN "warning"
    ELSE "normal"

\* The double 1 - reservePercent, for each fraction in whole hundredths.
UserShare == [hundredths \in 0 .. 100 |-> DoubleSub(DoubleOfInt(1), Fraction(hundredths))]

\* monthlyReadCap * (1 - reservePercent), the effectiveCap of canRead and the
\* userBudget of getFairShareReads: a double, with the difference and the product
\* rounded (5 * (1 - 0.8) is 0.9999999999999998).  reservePercent is within [0, 1].
ReadBudget(config) ==
    DoubleMul(DoubleOfInt(config.monthlyReadCap), UserShare[config.reservePercent])

\* The budgets of the configurations above, worked out once.
KnownBudgets ==
    [config \in {DEFAULT_QUOTA_CONFIG, SmallQuotaConfig, ClientQuotaConfig,
                  RolloverQuotaConfig, ZeroCapQuotaConfig}
        |-> ReadBudget(config)]

\* ReadBudget(config), looked up when config is one of those.
EffectiveCap(config) ==
    IF config \in DOMAIN KnownBudgets THEN KnownBudgets[config] ELSE ReadBudget(config)

\* canRead(count): readsUsed + count <= effectiveCap; the sum is a whole number, so
\* it is at most effectiveCap when it is at most Math.floor(effectiveCap).
CanRead(q, count) ==
    q.readsUsed + count <= DoubleFloor(EffectiveCap(q.config))

CanWriteOneOver(q, count) ==
    q.writesUsed + count <= q.config.monthlyWriteCap + 1

\* canWrite(count)
CanWrite(q, count) ==
    q.writesUsed + count <= q.config.monthlyWriteCap

CanSystemReadReserved(q, count) ==
    q.readsUsed + count <= DoubleFloor(EffectiveCap(q.config))

\* canSystemRead(count)
CanSystemRead(q, count) ==
    q.readsUsed + count <= q.config.monthlyReadCap

\* setActiveUsers(count)
SetActiveUsers(q, count) ==
    [q EXCEPT !.activeUsers = Max(1, count)]

GetFairShareReadsUndivided(q) ==
    DoubleFloor(DoubleMul(DoubleDiv(EffectiveCap(q.config), 1), Double1_2))

\* Math.floor(userBudget / activeUsers * 1.2), in doubles.
FairShare(config, activeUsers) ==
    LET userBudget == EffectiveCap(config)
        fairShare == DoubleDiv(userBudget, activeUsers)
    IN  DoubleFloor(DoubleMul(fairShare, Double1_2))

\* The fair shares of the configurations above with 1, 10 and 81 users, worked out once.
KnownShares ==
    [config \in DOMAIN KnownBudgets, activeUsers \in {1, 10, 81}
        |-> FairShare(config, activeUsers)]

\* getFairShareReads(): the fair share, looked up when it is one of those.
GetFairShareReads(q) ==
    IF <<q.config, q.activeUsers>> \in DOMAIN KnownShares
    THEN KnownShares[q.config, q.activeUsers]
    ELSE FairShare(q.config, q.activeUsers)

\* getRemainingReads()
GetRemainingReads(q) == Max(0, q.config.monthlyReadCap - q.readsUsed)

\* getRemainingWrites()
GetRemainingWrites(q) == Max(0, q.config.monthlyWriteCap - q.writesUsed)

\* getPollingMultiplier()
GetPollingMultiplier(q) ==
    CASE GetLevel(q) = "normal" -> 1
      [] GetLevel(q) = "warning" -> 2
      [] GetLevel(q) = "critical" -> 4
      [] GetLevel(q) = "exhausted" -> "Infinity"

\* Math.round of the double -(a * 2^e), a > 0: the nearest integer, a tie going to
\* the larger, which is the one nearer to 0 (Math.round(-2.5) is -2, Math.round(-0.5)
\* is -0, printed "0").
RoundNegative(a, e) ==
    IF e >= 0 THEN 0 - RoundHalfUp(a, e)
    ELSE LET half == BigShiftRight(a, 0 - e - 1)
             tie == half.q # <<>> /\ half.q[1] % 2 = 1 /\ ~half.sticky
         IN  0 - (RoundHalfUp(a, e) - IF tie THEN 1 ELSE 0)

\* Math.round((x / y) * 100) as the template prints it, in doubles: the quotient and
\* the product are rounded (2175 / 15000 * 100 is 14.499999999999998, which rounds to
\* 14).  With y = 0 the quotient is NaN for x = 0 and an infinity otherwise, and so
\* is what Math.round returns.
RoundPct(x, y) ==
    IF y = 0 THEN (IF x = 0 THEN "NaN" ELSE IF x > 0 THEN "Infinity" ELSE "-Infinity")
    ELSE LET pct == DoubleMul(DoubleDiv(DoubleOfInt(Abs(x)), Abs(y)), DoubleOfInt(100))
         IN  IF (x < 0) = (y < 0) THEN RoundHalfUp(pct.m, pct.e)
             ELSE RoundNegative(pct.m, pct.e)

\* getStatusMessage(): the parts the message is built from (the reads remaining,
\* limit - used, are not floored at 0; the percentage is printed at level normal only).
GetStatusMessage(q) ==
    LET state == GetState(q)
        level == GetLevel(q)
        pct == RoundPct(state.monthlyReadsUsed, state.monthlyReadsLimit)
        left == state.monthlyReadsLimit - state.monthlyReadsUsed
    IN  CASE level = "normal" -> <<"normal", left, pct>>
          [] level = "warning" -> <<"warning", left>>
          [] level = "critical" -> <<"critical", left, state.resetsAt>>
          [] level = "exhausted" -> <<"exhausted", state.resetsAt>>

ResetKeepsWrites(q, t) ==
    [q EXCEPT !.readsUsed = 0, !.cacheHits = 0,
              !.totalRequests = 0, !.resetDate = GetNextResetDate(t)]

\* reset()
Reset(q, t) ==
    [q EXCEPT !.readsUsed = 0, !.writesUsed = 0, !.cacheHits = 0,
              !.totalRequests = 0, !.resetDate = GetNextResetDate(t)]

CheckAndResetLate(q, t) == IF t > q.resetDate THEN Reset(q, t) ELSE q

\* checkAndReset(): the tracker after the call.
CheckAndReset(q, t) == IF t >= q.resetDate THEN Reset(q, t) ELSE q

\* checkAndReset(): the value returned.
CheckAndResetResult(q, t) == t >= q.resetDate

LoadStateDefaults(q, state) ==
    [q EXCEPT !.readsUsed = IF "monthlyReadsUsed" \in DOMAIN state
                            THEN state.monthlyReadsUsed ELSE 0,
              !.writesUsed = IF "monthlyWritesUsed" \in DOMAIN state
                             THEN state.monthlyWritesUsed ELSE 0]

\* loadState(state): state is a partial QuotaState, a function on the fields it holds.
LoadState(q, state) ==
    LET q1 == IF "monthlyReadsUsed" \in DOMAIN state
              THEN [q EXCEPT !.readsUsed = state.monthlyReadsUsed] ELSE q
    IN  IF "monthlyWritesUsed" \in DOMAIN state
        THEN [q1 EXCEPT !.writesUsed = state.monthlyWritesUsed] ELSE q1

(***************************************************************************)
(* retry.ts                                                                *)
(***************************************************************************)

\* An optional Date (rateLimitReset?: Date): <<>> when undefined, <<t>> when present.
NoReset == <<>>

IsRetryableListed(statusCode) == statusCode \in {429, 500, 502, 503, 504}

\* isRetryable(statusCode)
IsRetryable(statusCode) ==
    statusCode = 429 \/ (statusCode >= 500 /\ statusCode <= 504)

\* new XApiError(message, statusCode, endpoint, rateLimitReset): retryable defaults to
\* isRetryable(statusCode).  id stands for the object's identity.
XApiError(id, message, statusCode, endpoint, rateLimitReset) ==
    [id |-> id, message |-> message, statusCode |-> statusCode, endpoint |-> endpoint,
     rateLimitReset |-> rateLimitReset, retryable |-> IsRetryable(statusCode)]

\* No error (undefined).
NoError ==
    [id |-> 0, message |-> "", statusCode |-> 0, endpoint |-> <<>>,
     rateLimitReset |-> NoReset, retryable |-> FALSE]

\* DEFAULT_RETRY_CONFIG; backoffMultiplier in hundredths (2 is 200).
DEFAULT_RETRY_CONFIG ==
    [maxRetries |-> 3, baseDelayMs |-> 1000, maxDelayMs |-> 60000,
     backoffMultiplier |-> 200, jitter |-> TRUE]

\* { ...defaults, ...partial }: the keys of partial override those of defaults.
Spread(defaults, partial) ==
    [k \in DOMAIN defaults \cup DOMAIN partial |->
        IF k \in DOMAIN partial THEN partial[k] ELSE defaults[k]]

\* The double a + b.
DoubleAdd(a, b) ==
    LET e == Min(a.e, b.e)
    IN  RoundDouble(BigTrim(BigAdd(BigShiftLeft(a.m, a.e - e), BigShiftLeft(b.m, b.e - e), 0)),
                    e, FALSE)

RECURSIVE BigLess(_, _)
\* a < b, for a and b without leading zero digits (or of the same length).
BigLess(a, b) ==
    IF Len(a) # Len(b) THEN Len(a) < Len(b)
    ELSE IF a = <<>> THEN FALSE
    ELSE IF a[Len(a)] # b[Len(b)] THEN a[Len(a)] < b[Len(b)]
    ELSE BigLess(SubSeq(a, 1, Len(a) - 1), SubSeq(b, 1, Len(b) - 1))

\* Math.min(a, b) of two doubles.
MathMin(a, b) ==
    LET e == Min(a.e, b.e)
    IN  IF BigLess(BigTrim(BigShiftLeft(b.m, b.e - e)), BigTrim(BigShiftLeft(a.m, a.e - e)))
        THEN b ELSE a

\* The double of a number written in hundredths: a whole number is that double, else
\* it is the double nearest to the literal (1.1 is the double nearest to 110 / 100).
DoubleOfHundredths(hundredths) ==
    IF hundredths % 100 = 0 THEN DoubleOfInt(hundredths \div 100) ELSE Fraction(hundredths)

RECURSIVE BigPow(_, _)
\* a^n
BigPow(a, n) == IF n <= 0 THEN <<1>> ELSE BigMul(a, BigPow(a, n - 1))

\* Math.pow(b, n) for a double b >= 0 and a whole n >= 0: the values it can return.
\* Math.pow is implementation-approximated: the power itself when that is a double
\* (1.5^4 is 5.0625), and otherwise either of the two doubles it lies between.
MathPow(b, n) ==
    LET m == BigPow(b.m, n)
        s == BigBitLen(m) - 53
        Between(down) ==
            IF down.sticky
            THEN { [m |-> down.q, e |-> n * b.e + s],
                   [m |-> BigAdd(down.q, <<1>>, 0), e |-> n * b.e + s] }
            ELSE { [m |-> down.q, e |-> n * b.e + s] }
    IN  IF s <= 0 THEN { [m |-> BigTrim(m), e |-> n * b.e] }
        ELSE Between(BigShiftRight(m, s))

CappedDelayUncapped(attempt, config) ==
    { DoubleMul(DoubleOfInt(config.baseDelayMs), p) :
        p \in MathPow(DoubleOfHundredths(config.backoffMultiplier), attempt) }

\* calculateDelay: cappedDelay = Math.min(baseDelayMs * Math.pow(backoffMultiplier,
\* attempt), maxDelayMs), the doubles it can be (one, unless the power is not a double).
\* baseDelayMs and maxDelayMs are whole milliseconds, backoffMultiplier is not negative.
CappedDelay(attempt, config) ==
    { MathMin(DoubleMul(DoubleOfInt(config.baseDelayMs), p), DoubleOfInt(config.maxDelayMs)) :
        p \in MathPow(DoubleOfHundredths(config.backoffMultiplier), attempt) }

\* Math.round of a double a >= 0.
MathRound(a) == RoundHalfUp(a.m, a.e)

\* The values Math.max(0, Math.round(cappedDelay + jitter)) can take, for
\* jitterRange = cappedDelay * fraction, the fraction a double that is a power of 2
\* (0.25 is 2^-2, so the product is exact).  Math.random() is in [0, 1) and
\* cappedDelay + jitter ranges over the doubles from c - jitterRange to
\* c + jitterRange: the sum is rounded to a double, and for Math.random() next to 1
\* it is c + jitterRange itself (c = 2: 2 + (1 - 2^-52) * 0.5 is 2.5).
Jittered(c, fraction) ==
    LET jitterRange == [m |-> c.m, e |-> c.e + fraction.e]
    IN  { Max(0, d) : d \in MathRound(DoubleSub(c, jitterRange))
                              .. MathRound(DoubleAdd(c, jitterRange)) }

CalculateDelayWide(attempt, config) ==
    UNION { IF config.jitter THEN Jittered(c, [m |-> <<1>>, e |-> -1]) ELSE { MathRound(c) } :
              c \in CappedDelay(attempt, config) }

\* calculateDelay(attempt, config): the values it can return.  Without jitter it is
\* Math.round(cappedDelay): 5063 for a cappedDelay of 5062.5.  With jitter the results
\* are the integers from Math.round(0.75 c) to Math.round(1.25 c), floored at 0.
DelayValues(attempt, config) ==
    UNION { IF config.jitter THEN Jittered(c, [m |-> <<1>>, e |-> -2]) ELSE { MathRound(c) } :
              c \in CappedDelay(attempt, config) }

\* The configurations withRetry is driven with directly: 2 ms doubling up to 5 ms,
\* with and without jitter, with up to MaxRetries retries and with none (0, -1).
RetryConfigs ==
    { [maxRetries |-> m, baseDelayMs |-> 2, maxDelayMs |-> 5, backoffMultiplier |-> 200,
       jitter |-> j] : m \in -1 .. MaxRetries, j \in BOOLEAN }

\* The delays of those configurations, and of the client's (the default delays
\* without jitter, one retry), for the attempts 0 .. MaxRetries, worked out once.
KnownDelays ==
    [config \in RetryConfigs
                  \cup { [DEFAULT_RETRY_CONFIG EXCEPT !.maxRetries = 1, !.jitter = FALSE] },
     attempt \in 0 .. MaxRetries |-> DelayValues(attempt, config)]

\* calculateDelay(attempt, config): its values, looked up when they are among those.
CalculateDelay(attempt, config) ==
    IF <<config, attempt>> \in DOMAIN KnownDelays THEN KnownDelays[config, attempt]
    ELSE DelayValues(attempt, config)

DelayUntilResetLongBuffer(resetAt, t) == Max(0, (resetAt - t) + 2000)

DelayUntilResetNoBuffer(resetAt, t) == Max(0, resetAt - t)

\* delayUntilReset(resetAt) at clock t
DelayUntilReset(resetAt, t) == Max(0, (resetAt - t) + 1000)

RetryDelayAnyStatus(err, attempt, config, t) ==
    IF err.rateLimitReset # NoReset
    THEN { DelayUntilReset(err.rateLimitReset[1], t) }
    ELSE CalculateDelay(attempt, config)

\* withRetry, lines 139-145: the delays the wait before the next attempt can take.
RetryDelay(err, attempt, config, t) ==
    IF err.statusCode = 429 /\ err.rateLimitReset # NoReset
    THEN { DelayUntilReset(err.rateLimitReset[1], t) }
    ELSE CalculateDelay(attempt, config)

GiveUpEarly(err, attempt, config) ==
    ~IsRetryable(err.statusCode) \/ attempt + 1 >= config.maxRetries

GiveUpOnLast(err, attempt, config) == attempt = config.maxRetries

\* withRetry, line 135: the catch block rethrows.
GiveUp(err, attempt, config) ==
    ~IsRetryable(err.statusCode) \/ attempt = config.maxRetries

\* An activation of withRetry(fn, config, onRetry) that has not been called.
\*   pc: idle, awaitFn (await fn()), sleep (await sleep(delay)), returned, thrown
\*   calls, hooks, sleeps: what withRetry did: the number of invocations of fn, the
\*   onRetry calls (attempt, delay, error), the delays slept;
\*   errs, value: what fn did: the errors it raised, the value it resolved with.
IdleRetry ==
    [pc |-> "idle", config |-> [maxRetries |-> 0, baseDelayMs |-> 0, maxDelayMs |-> 0,
                                backoffMultiplier |-> 0, jitter |-> FALSE],
     onRetry |-> FALSE, attempt |-> 0, lastError |-> NoError, delay |-> 0,
     result |-> "none", thrown |-> NoError,
     calls |-> 0, hooks |-> <<>>, sleeps |-> <<>>, errs |-> <<>>, value |-> "none"]

\* withRetry is called: lastError undefined, attempt = 0; the loop test; fn() is invoked.
WithRetryCall(config, onRetry) ==
    IF 0 <= config.maxRetries
    THEN [IdleRetry EXCEPT !.pc = "awaitFn", !.config = config, !.onRetry = onRetry,
                           !.calls = 1]
    ELSE [IdleRetry EXCEPT !.pc = "thrown", !.config = config, !.onRetry = onRetry]

WithRetryResolveNoReturn(r, v) ==
    IF r.attempt + 1 <= r.config.maxRetries
    THEN [r EXCEPT !.pc = "awaitFn", !.attempt = @ + 1, !.calls = @ + 1]
    ELSE [r EXCEPT !.pc = "thrown", !.attempt = @ + 1, !.thrown = r.lastError]

\* fn() resolves with v: return await fn().
WithRetryResolve(r, v) ==
    [r EXCEPT !.pc = "returned", !.result = v]

WithRetryRejectFirst(r, err, d) ==
    LET e == IF r.lastError = NoError THEN err ELSE r.lastError
    IN  IF GiveUp(err, r.attempt, r.config)
        THEN [r EXCEPT !.pc = "thrown", !.lastError = e, !.thrown = e]
        ELSE [r EXCEPT !.pc = "sleep", !.lastError = e, !.delay = d,
                       !.hooks = IF r.onRetry THEN Append(@, <<r.attempt, d, e>>) ELSE @]

WithRetryRejectHookOnGiveUp(r, err, d) ==
    IF GiveUp(err, r.attempt, r.config)
    THEN [r EXCEPT !.pc = "thrown", !.lastError = err, !.thrown = err,
                   !.hooks = IF r.onRetry THEN Append(@, <<r.attempt, d, err>>) ELSE @]
    ELSE [r EXCEPT !.pc = "sleep", !.lastError = err, !.delay = d,
                   !.hooks = IF r.onRetry THEN Append(@, <<r.attempt, d, err>>) ELSE @]

\* fn() rejects with err: the catch block.  d is the delay chosen from RetryDelay;
\* onRetry?.(attempt, delay, lastError) is called, then sleep(delay).
WithRetryReject(r, err, d) ==
    IF GiveUp(err, r.attempt, r.config)
    THEN [r EXCEPT !.pc = "thrown", !.lastError = err, !.thrown = err]
    ELSE [r EXCEPT !.pc = "sleep", !.lastError = err, !.delay = d,
                   !.hooks = IF r.onRetry THEN Append(@, <<r.attempt, d, err>>) ELSE @]

\* sleep(delay) resolves: attempt++, the loop test, fn() is invoked again; when the
\* loop ends, line 152 throws lastError.
WithRetryWake(r) ==
    IF r.attempt + 1 <= r.config.maxRetries
    THEN [r EXCEPT !.pc = "awaitFn", !.attempt = @ + 1, !.sleeps = Append(@, r.delay),
                   !.calls = @ + 1]
    ELSE [r EXCEPT !.pc = "thrown", !.attempt = @ + 1, !.sleeps = Append(@, r.delay),
                   !.thrown = r.lastError]

(***************************************************************************)
(* client.ts                                                               *)
(***************************************************************************)

\* The batch size of getTweets: this.chunkArray(params.ids, 100).
ChunkSize == 100

ChunkArrayShort(arr, size) ==
    [k \in 1 .. ((Len(arr) + size - 1) \div size) |->
        SubSeq(arr, (k - 1) * size + 1, Min(k * size - 1, Len(arr)))]

\* chunkArray(arr, size): arr.slice(i, i + size) for i = 0, size, 2 size, ... < arr.length
ChunkArray(arr, size) ==
    [k \in 1 .. ((Len(arr) + size - 1) \div size) |->
        SubSeq(arr, (k - 1) * size + 1, Min(k * size, Len(arr)))]

\* A path is the sequence of its segments: /2/tweets is <<"2", "tweets">>.
TweetsPath == <<"2", "tweets">>
TimelinePath(userId) == <<"2", "users", userId, "tweets">>
SearchPath == <<"2", "tweets", "search", "recent">>

\* Strings are read a character at a time: Head(s) is the first character of s as a
\* string of length 1, Tail(s) the rest, SubSeq(s, i, i) the i-th.
UpperCaseLetters == "ABCDEFGHIJKLMNOPQRSTUVWXYZ"
LowerCaseLetters == "abcdefghijklmnopqrstuvwxyz"
DecimalDigits == "0123456789"

\* The characters of s.
Chars(s) == { SubSeq(s, i, i) : i \in 1 .. Len(s) }

\* The characters [a-zA-Z0-9] and [0-9].
AlnumChars == Chars(UpperCaseLetters) \cup Chars(LowerCaseLetters) \cup Chars(DecimalDigits)
DigitChars == Chars(DecimalDigits)

\* The segment matches [a-zA-Z0-9]+ (a user id such as "u_2" does not).
IsAlnum(segment) == segment # "" /\ Chars(segment) \subseteq AlnumChars

\* request(), line 247: `${method} ${path.replace(/\/[a-zA-Z0-9]+$/, '/:id')}`.
\* An endpoint is <<method, path>>; a segment holds no "/".
EndpointOf(method, path) ==
    <<method,
      IF Len(path) > 0 /\ IsAlnum(path[Len(path)])
      THEN SubSeq(path, 1, Len(path) - 1) \o <<":id">>
      ELSE path>>

\* StrWhiteSpaceChar, the characters parseInt skips at the start of a string: TAB,
\* VT (U+000B), FF, SP, NBSP (U+00A0), OGHAM SPACE MARK (U+1680), ZWNBSP (U+FEFF),
\* LF and CR.  The other space separators (U+2000 to U+200A, U+202F, U+205F, U+3000)
\* and the line and paragraph separators (U+2028, U+2029) cannot be written in a
\* string here, so that no string of the model holds them.
WhiteSpace == {"\t", "", "\f", " ", " ", " ", "﻿", "\n", "\r"}

\* HTTP whitespace, which Headers strips from both ends of a value: TAB, LF, CR, SP.
HttpWhitespace == {"\t", "\n", "\r", " "}

RECURSIVE TrimStart(_)
TrimStart(s) == IF s # "" /\ Head(s) \in WhiteSpace THEN TrimStart(Tail(s)) ELSE s

RECURSIVE LeadingDigits(_)
\* The longest prefix of s made of decimal digits.
LeadingDigits(s) ==
    IF s # "" /\ Head(s) \in DigitChars
    THEN Head(s) \o LeadingDigits(Tail(s)) ELSE ""

RECURSIVE DigitsValue(_)
\* The number a string of decimal digits denotes.
DigitsValue(s) ==
    IF s = "" THEN 0
    ELSE DigitsValue(SubSeq(s, 1, Len(s) - 1)) * 10
           + ((CHOOSE i \in 1 .. 10 :
                  SubSeq(DecimalDigits, i, i) = SubSeq(s, Len(s), Len(s))) - 1)

\* What parseInt(s, 10) reads of s: after the white space, a sign and the digits up
\* to the first character that is not one ("300, 900" reads as 300).
IntPrefix(s) ==
    LET t == TrimStart(s)
        signed == t # "" /\ Head(t) \in {"+", "-"}
    IN  [negative |-> signed /\ Head(t) = "-",
         digits |-> LeadingDigits(IF signed THEN Tail(t) ELSE t)]

NaN == "NaN"

\* parseInt(s, 10): NaN when s starts with no digits.
ParseInt(s) ==
    LET p == IntPrefix(s)
    IN  IF p.digits = "" THEN NaN
        ELSE IF p.negative THEN 0 - DigitsValue(p.digits) ELSE DigitsValue(p.digits)

\* new Date(NaN): a Date whose time value is NaN.
InvalidDate == "Invalid Date"

\* headers[key]: "" stands for undefined too, both are falsy.
HeaderGet(headers, key) == IF key \in DOMAIN headers THEN headers[key] ELSE ""

\* parseRateLimitHeaders(headers): <<>> for null, else <<the parsed headers>>.
\* headers is a Record<string, string>, a function from the keys it holds.
ParseRateLimitHeaders(headers) ==
    LET limit == HeaderGet(headers, "x-rate-limit-limit")
        remaining == HeaderGet(headers, "x-rate-limit-remaining")
        reset == HeaderGet(headers, "x-rate-limit-reset")
    IN  IF limit = "" \/ remaining = "" \/ reset = ""
        THEN <<>>
        ELSE << [resetAt |-> IF IntPrefix(reset).digits = "" THEN InvalidDate
                             ELSE ParseInt(reset) * 1000,
                 limit |-> ParseInt(limit),
                 remaining |-> ParseInt(remaining)] >>

\* The lower-case letter of each of A-Z.
ToLowerCase ==
    [c \in Chars(UpperCaseLetters) |->
        LET i == CHOOSE i \in 1 .. Len(UpperCaseLetters) : SubSeq(UpperCaseLetters, i, i) = c
        IN  SubSeq(LowerCaseLetters, i, i)]

RECURSIVE LowerCase(_)
\* A header name as fetch's Headers reports it: A-Z in lower case, the rest kept.
LowerCase(name) ==
    IF name = "" THEN ""
    ELSE (IF Head(name) \in DOMAIN ToLowerCase THEN ToLowerCase[Head(name)] ELSE Head(name))
         \o LowerCase(Tail(name))

RECURSIVE TrimEnd(_)
TrimEnd(s) ==
    IF s # "" /\ SubSeq(s, Len(s), Len(s)) \in HttpWhitespace
    THEN TrimEnd(SubSeq(s, 1, Len(s) - 1)) ELSE s

RECURSIVE TrimValueStart(_)
TrimValueStart(s) ==
    IF s # "" /\ Head(s) \in HttpWhitespace THEN TrimValueStart(Tail(s)) ELSE s

RECURSIVE CombineValues(_)
\* The values of the headers hs, in their order, joined by ", ".
CombineValues(hs) ==
    IF Len(hs) = 1 THEN TrimEnd(TrimValueStart(hs[1][2]))
    ELSE TrimEnd(TrimValueStart(hs[1][2])) \o ", " \o CombineValues(Tail(hs))

\* Response headers as the server sends them: the list of <<name, value>>.
NoHeaders == <<>>
RateLimitHeaders ==
    << <<"X-Rate-Limit-Limit", "300">>, <<"X-Rate-Limit-Remaining", "0">>,
       <<"X-Rate-Limit-Reset", "2">> >>

\* A second set of the three headers, and one with x-rate-limit-reset missing.
OtherRateLimitHeaders ==
    << <<"x-rate-limit-limit", "900">>, <<"x-rate-limit-remaining", "450">>,
       <<"x-rate-limit-reset", "17">> >>

PartialRateLimitHeaders ==
    << <<"x-rate-limit-limit", "900">>, <<"x-rate-limit-remaining", "449">> >>

\* Object.fromEntries(response.headers.entries()).  raw is the list of the headers
\* of the response, <<name, value>> each, in the order the server sent them.  Headers
\* reports each name in lower case with the values of that name combined; of
\* several set-cookie headers, reported one by one, fromEntries keeps the last.
FromEntries(raw) ==
    LET lower == [i \in DOMAIN raw |-> <<LowerCase(raw[i][1]), raw[i][2]>>]
    IN  [k \in { lower[i][1] : i \in DOMAIN raw } |->
            LET same == SelectSeq(lower, LAMBDA h : h[1] = k)
            IN  IF k = "set-cookie" THEN CombineValues(<<same[Len(same)]>>)
                ELSE CombineValues(same)]

\* FromEntries of the header lists above, worked out once.
KnownEntries ==
    [raw \in {NoHeaders, RateLimitHeaders, OtherRateLimitHeaders, PartialRateLimitHeaders}
        |-> FromEntries(raw)]

\* FromEntries(raw), looked up when raw is one of those lists.
HeaderEntries(raw) ==
    IF raw \in DOMAIN KnownEntries THEN KnownEntries[raw] ELSE FromEntries(raw)

\* response.ok
ResponseOk(status) == status >= 200 /\ status <= 299

\* new XApiClient(config): bearerToken and userAccessToken are present (a non-empty
\* string) or not, mockMode is <<>> when not given, retryConfig is partial;
\* mockMode = config.mockMode ?? !config.bearerToken.
NewXApiClient(config) ==
    [mockMode |-> IF config.mockMode # <<>> THEN config.mockMode[1] ELSE ~config.bearerToken,
     userAccessToken |-> config.userAccessToken,
     retryConfig |-> Spread(DEFAULT_RETRY_CONFIG, config.retryConfig)]

\* The parameters of a client operation.
NoOp == [kind |-> "none", ids |-> <<>>, userId |-> ""]

\* method and path of the request a live operation makes.
MethodOf(op) == IF op.kind = "createTweet" THEN "POST" ELSE "GET"
PathOf(op) ==
    CASE op.kind = "getUserTimeline" -> TimelinePath(op.userId)
      [] op.kind = "searchRecent" -> SearchPath
      [] OTHER -> TweetsPath

\* The endpoint named in the quota error each operation throws.
QuotaEndpointOf(op) ==
    CASE op.kind = "getUserTimeline" -> <<"GET", <<"2", "users", ":id", "tweets">>>>
      [] op.kind = "searchRecent" -> <<"GET", SearchPath>>
      [] op.kind = "createTweet" -> <<"POST", TweetsPath>>
      [] OTHER -> <<"GET", TweetsPath>>

\* The error an operation throws at its closed gate (lines 97-101, 129, 164, 194):
\* throw new XApiError(message, 429, endpoint).
QuotaError(op) ==
    XApiError(0, CASE op.kind = "createTweet" -> "Monthly write quota exhausted."
                   [] op.kind = "getTweets" ->
                         "Monthly read quota exhausted. Serving cached data."
                   [] OTHER -> "Monthly read quota exhausted.",
              429, QuotaEndpointOf(op), NoReset)

\* A caller with no operation in progress.
\*   pc: idle, request (await this.request(...)), done
\*   awaiting: what fn, the function request() hands to withRetry, waits for: fetch
\*   (line 261), json (the promise of response.json(), line 290), or none
\*   chunks, i: getTweets' chunks and the index of the one the loop is at
\*   outcome, error: how the operation ended: ok, or error with the error thrown
\*   before, after: the tracker when the operation was called, and when it ended
\*   requests: the calls of this.request made (method, path, ids), in order
\*   fetches: the number of fetch() calls made
IdleOp ==
    [pc |-> "idle", awaiting |-> "none", op |-> NoOp, chunks |-> <<>>, i |-> 0,
     outcome |-> "none", error |-> NoError, before |-> NewQuotaTracker(DEFAULT_QUOTA_CONFIG, 0),
     after |-> NewQuotaTracker(DEFAULT_QUOTA_CONFIG, 0),
     requests |-> <<>>, fetches |-> 0]

\* The operation ends with the tracker at q: it returns, or throws err.
Returns(o, q) ==
    [o EXCEPT !.pc = "done", !.awaiting = "none", !.outcome = "ok", !.after = q]
Throws(o, err, q) ==
    [o EXCEPT !.pc = "done", !.awaiting = "none", !.outcome = "error", !.error = err,
              !.after = q]

AdmitsSystem(q, op) ==
    IF op.kind = "createTweet" THEN CanWrite(q, 1) ELSE CanSystemRead(q, 1)

\* The gate of a live operation: canRead() for the reads, canWrite() for createTweet.
Admits(q, op) == IF op.kind = "createTweet" THEN CanWrite(q, 1) ELSE CanRead(q, 1)

\* await this.request(method, path, ...): withRetry is entered (r0) and fetch called.
CallsRequest(o, q, r0, ids) ==
    LET o1 == [o EXCEPT !.requests = Append(@, [method |-> MethodOf(o.op),
                                                path |-> PathOf(o.op), ids |-> ids]),
                        !.fetches = @ + r0.calls]
    IN  IF r0.pc = "thrown" THEN Throws(o1, r0.thrown, q)
        ELSE [o1 EXCEPT !.pc = "request", !.awaiting = "fetch"]

ProceedGateOnce(o, q, r0) ==
    IF o.op.kind = "getTweets"
    THEN IF o.i > Len(o.chunks) THEN Returns(o, q)
         ELSE IF o.i = 1 /\ ~Admits(q, o.op) THEN Throws(o, QuotaError(o.op), q)
         ELSE CallsRequest(o, q, r0, o.chunks[o.i])
    ELSE IF ~Admits(q, o.op) THEN Throws(o, QuotaError(o.op), q)
         ELSE CallsRequest(o, q, r0, <<>>)

\* A live operation from its gate on: getTweets at the head of its loop over the
\* chunks (lines 95-117), the others at their check (lines 128, 163, 193).
Proceed(o, q, r0) ==
    IF o.op.kind = "getTweets" /\ o.i > Len(o.chunks) THEN Returns(o, q)
    ELSE IF ~Admits(q, o.op) THEN Throws(o, QuotaError(o.op), q)
    ELSE CallsRequest(o, q, r0, IF o.op.kind = "getTweets" THEN o.chunks[o.i] ELSE <<>>)

\* this.quota.recordReads(1) / recordWrites(1) after the request returned.
RecordOp(q, op) == IF op.kind = "createTweet" THEN RecordWrites(q, 1) ELSE RecordReads(q, 1)

\* mockGetTweets, mockGetTimeline, mockSearch, mockCreateTweet: what they do to the tracker.
MockCall(q, op) == IF op.kind = "createTweet" THEN RecordWrites(q, 1) ELSE RecordReads(q, 1)

\* The second client: a mock-mode XApiClient with its own tracker.
\*   outcome, fetches: how its last operation ended, and its fetch() calls
NewMockClient(cfg, t) ==
    [quota |-> NewQuotaTracker(cfg, t), outcome |-> "none", fetches |-> 0]

StoreRateLimitFirstWins(states, endpoint, parsed, userAccessToken) ==
    IF parsed = <<>> \/ endpoint \in DOMAIN states THEN states
    ELSE [e \in DOMAIN states \cup {endpoint} |->
            IF e = endpoint
            THEN [endpoint |-> endpoint, remaining |-> parsed[1].remaining,
                  resetAt |-> ToISOString(parsed[1].resetAt), limit |-> parsed[1].limit,
                  scope |-> IF userAccessToken THEN "user" ELSE "app"]
            ELSE states[e]]

\* The store of request(), lines 271-279: rateLimitStates.set(endpoint, {...}).
StoreRateLimit(states, endpoint, parsed, userAccessToken) ==
    IF parsed = <<>> THEN states
    ELSE [e \in DOMAIN states \cup {endpoint} |->
            IF e = endpoint
            THEN [endpoint |-> endpoint, remaining |-> parsed[1].remaining,
                  resetAt |-> ToISOString(parsed[1].resetAt), limit |-> parsed[1].limit,
                  scope |-> IF userAccessToken THEN "user" ELSE "app"]
            ELSE states[e]]

\* getRateLimitState(endpoint): <<>> for null.
GetRateLimitState(states, endpoint) ==
    IF endpoint \in DOMAIN states THEN <<states[endpoint]>> ELSE <<>>

\* The rateLimitStates map of a new client.
EmptyMap == [e \in {} |-> 0]

\* The client configuration the tracker-only and withRetry-only runs are set in.
DefaultClientConfig ==
    [bearerToken |-> FALSE, userAccessToken |-> FALSE, mockMode |-> <<>>,
     retryConfig |-> [k \in {} |-> 0]]

\* What request() does with the response of fetch: the error it throws when the
\* response is not ok (lines 281-288), rateLimitHeaders being what line 268 parsed;
\* id numbers the invocation that failed.  A response is [headers, status, statusText].
ResponseError(id, resp, endpoint, rateLimitHeaders) ==
    XApiError(id, "X API error: " \o ToString(resp.status) \o " " \o resp.statusText,
              resp.status, endpoint,
              IF rateLimitHeaders = <<>> THEN NoReset ELSE <<rateLimitHeaders[1].resetAt>>)

\* An error that is no XApiError: a TypeError, SyntaxError or RangeError of the
\* runtime.  Its statusCode (undefined) is 0 here, and it has no endpoint, no
\* rateLimitReset and no retryable field.
JsError(id, message) ==
    [id |-> id, message |-> message, statusCode |-> 0, endpoint |-> <<>>,
     rateLimitReset |-> NoReset, retryable |-> FALSE]

\* The RangeError resetAt.toISOString() throws (line 275) when the reset header
\* holds no number.
RangeError(id) == JsError(id, "Invalid time value")

\* The TypeError of getTweets at response.data (line 112) when the body is null.
DataTypeError == JsError(0, "Cannot read properties of null (reading 'data')")

\* What response.json() settles with: it resolves with the value the body denotes,
\* an object or null, or rejects with a SyntaxError when the body is not JSON.
JsonObject == [resolves |-> TRUE, value |-> "object", message |-> ""]
JsonNull == [resolves |-> TRUE, value |-> "null", message |-> ""]
JsonBodies ==
    { JsonObject, JsonNull,
      [resolves |-> FALSE, value |-> "none",
       message |-> "Unexpected token '<', \"<html>\" is not valid JSON"] }

\* The messages of the TypeError fetch rejects with when no response arrives.
FetchFailures == {"fetch failed"}

\* Line 275 throws: the three headers are there and the reset holds no number.
ThrowsRangeError(entries) ==
    /\ ParseRateLimitHeaders(entries) # <<>>
    /\ IntPrefix(HeaderGet(entries, "x-rate-limit-reset")).digits = ""

SettleStripsReset(o, q, r, r1, config) ==
    IF r1.pc = "returned"
    THEN LET q2 == RecordOp(q, o.op)
             r0 == WithRetryCall(config, TRUE)
             o2 == IF o.op.kind = "getTweets"
                   THEN IF r1.result = JsonNull.value THEN Throws(o, DataTypeError, q2)
                        ELSE Proceed([o EXCEPT !.i = @ + 1], q2, r0)
                   ELSE Returns(o, q2)
         IN  [op |-> o2, quota |-> q2, retry |-> IF o2.pc = "request" THEN r0 ELSE r1]
    ELSE IF r1.pc = "thrown"
    THEN [op |-> Throws(o, [r1.thrown EXCEPT !.rateLimitReset = NoReset], q),
          quota |-> q, retry |-> r1]
    ELSE [op |-> [o EXCEPT !.fetches = @ + (r1.calls - r.calls),
                           !.awaiting = IF r1.pc = "awaitFn" THEN "fetch" ELSE "none"],
          quota |-> q, retry |-> r1]

SettleRecordsRetries(o, q, r, r1, config) ==
    IF r1.pc = "returned"
    THEN LET q2 == RecordOp(q, o.op)
             r0 == WithRetryCall(config, TRUE)
             o2 == IF o.op.kind = "getTweets"
                   THEN IF r1.result = JsonNull.value THEN Throws(o, DataTypeError, q2)
                        ELSE Proceed([o EXCEPT !.i = @ + 1], q2, r0)
                   ELSE Returns(o, q2)
         IN  [op |-> o2, quota |-> q2, retry |-> IF o2.pc = "request" THEN r0 ELSE r1]
    ELSE IF r1.pc = "thrown"
    THEN [op |-> Throws(o, r1.thrown, q), quota |-> q, retry |-> r1]
    ELSE [op |-> [o EXCEPT !.fetches = @ + (r1.calls - r.calls),
                           !.awaiting = IF r1.pc = "awaitFn" THEN "fetch" ELSE "none"],
          quota |-> IF r1.calls > r.calls THEN RecordOp(q, o.op) ELSE q, retry |-> r1]

\* The operation after a step of its withRetry activation, which went from r to r1:
\* the request returned (the read or write is recorded and the operation goes on,
\* getTweets to response.data, which throws when the body is null, and then to its
\* next chunk), threw, called fetch again, or sleeps.
\* The result is the operation, the tracker and the activation (a new one when the
\* operation makes its next request).
Settle(o, q, r, r1, config) ==
    IF r1.pc = "returned"
    THEN LET q2 == RecordOp(q, o.op)
             r0 == WithRetryCall(config, TRUE)
             o2 == IF o.op.kind = "getTweets"
                   THEN IF r1.result = JsonNull.value THEN Throws(o, DataTypeError, q2)
                        ELSE Proceed([o EXCEPT !.i = @ + 1], q2, r0)
                   ELSE Returns(o, q2)
         IN  [op |-> o2, quota |-> q2, retry |-> IF o2.pc = "request" THEN r0 ELSE r1]
    ELSE IF r1.pc = "thrown"
    THEN [op |-> Throws(o, r1.thrown, q), quota |-> q, retry |-> r1]
    ELSE [op |-> [o EXCEPT !.fetches = @ + (r1.calls - r.calls),
                           !.awaiting = IF r1.pc = "awaitFn" THEN "fetch" ELSE "none"],
          quota |-> q, retry |-> r1]

(***************************************************************************)
(* The tracker driven directly: every public method of QuotaTracker, with  *)
(* its arguments drawn from small sets.                                    *)
(***************************************************************************)
\* The counts handed to recordReads and recordWrites: the methods take any number,
\* a negative one too.
ReadCounts == {-1, 1, 7, 1500, 10499, 13500}
WriteCounts == {-1, 1, 50000}
QueryCounts == {1, 13500}
ActiveUserCounts == {-1, 0, 10, 81}
TrackerConfigs == {DEFAULT_QUOTA_CONFIG, SmallQuotaConfig, ZeroCapQuotaConfig}

\* Partial<QuotaState> values handed to loadState: any number is taken as a counter.
PartialStates ==
    { [f \in {} |-> 0],
      [monthlyReadsUsed |-> 5],
      [monthlyWritesUsed |-> 2],
      [monthlyReadsUsed |-> -1, monthlyWritesUsed |-> -3],
      [monthlyReadsUsed |-> 13500, monthlyReadsLimit |-> 20000,
       monthlyWritesUsed |-> 1, monthlyWritesLimit |-> 7,
       resetsAt |-> ToISOString(2 * MonthLen), cacheHitRate |-> 5000] }

\* A call that may change the tracker: op(arg) returns ret and leaves the tracker q2.
Mutate(op, arg, ret, q2) ==
    /\ steps < MaxOps
    /\ quota' = q2
    /\ last' = [op |-> op, arg |-> arg, ret |-> ret, pre |-> quota, at |-> now]
    /\ steps' = steps + 1
    /\ UNCHANGED <<now, retry, active, clientVars>>

ObserveCounted(op, arg, ret) ==
    /\ quota' = [quota EXCEPT !.totalRequests = @ + 1]
    /\ last' = [op |-> op, arg |-> arg, ret |-> ret, pre |-> quota, at |-> now]
    /\ UNCHANGED <<now, steps, retry, active, clientVars>>

\* A query: op(arg) returns ret; the tracker is what the method leaves (itself).
Observe(op, arg, ret) ==
    /\ quota' = quota
    /\ last' = [op |-> op, arg |-> arg, ret |-> ret, pre |-> quota, at |-> now]
    /\ UNCHANGED <<now, steps, retry, active, clientVars>>

TRecordReads == \E n \in ReadCounts : Mutate("recordReads", n, "void", RecordReads(quota, n))
TRecordWrites == \E n \in WriteCounts : Mutate("recordWrites", n, "void", RecordWrites(quota, n))
TRecordCacheHit == Mutate("recordCacheHit", 0, "void", RecordCacheHit(quota))
TSetActiveUsers == \E n \in ActiveUserCounts : Mutate("setActiveUsers", n, "void", SetActiveUsers(quota, n))
TReset == Mutate("reset", 0, "void", Reset(quota, now))
TCheckAndReset == Mutate("checkAndReset", 0, CheckAndResetResult(quota, now), CheckAndReset(quota, now))
TLoadState == \E st \in PartialStates : Mutate("loadState", st, "void", LoadState(quota, st))

\* XApiClient.getQuotaState(): checkAndReset(), then getState(), on the client's tracker.
CGetQuotaState ==
    Mutate("getQuotaState", 0, GetState(CheckAndReset(quota, now)), CheckAndReset(quota, now))

\* XApiClient.getQuotaLevel(): checkAndReset(), then getLevel(), on the client's tracker.
CGetQuotaLevel ==
    Mutate("getQuotaLevel", 0, GetLevel(CheckAndReset(quota, now)), CheckAndReset(quota, now))

TGetState == Observe("getState", 0, GetState(quota))
TGetLevel == Observe("getLevel", 0, GetLevel(quota))
TCanRead == \E n \in QueryCounts : Observe("canRead", n, CanRead(quota, n))
TCanWrite == \E n \in QueryCounts : Observe("canWrite", n, CanWrite(quota, n))
TCanSystemRead == \E n \in QueryCounts : Observe("canSystemRead", n, CanSystemRead(quota, n))
TGetFairShareReads == Observe("getFairShareReads", 0, GetFairShareReads(quota))
TGetRemainingReads == Observe("getRemainingReads", 0, GetRemainingReads(quota))
TGetRemainingWrites == Observe("getRemainingWrites", 0, GetRemainingWrites(quota))
TGetCacheHitRate == Observe("getCacheHitRate", 0, GetCacheHitRate(quota))
TGetPollingMultiplier == Observe("getPollingMultiplier", 0, GetPollingMultiplier(quota))
TGetStatusMessage == Observe("getStatusMessage", 0, GetStatusMessage(quota))

\* The clock advances.
Tick ==
    /\ steps < MaxOps
    /\ now' = now + 1
    /\ steps' = steps + 1
    /\ UNCHANGED <<quota, last, retry, active, clientVars>>

\* No caller of withRetry or of a client operation exists, and no second client:
\* retry and ops, functions of the callers, are the empty function, and so is mock.
NoCallers == <<>>

\* The tracker is made one tick before the end of a month; it is driven directly.
InitTracker ==
    /\ now = MonthLen - 1
    /\ \E cfg \in TrackerConfigs : quota = NewQuotaTracker(cfg, now)
    /\ last = [op |-> "new", arg |-> 0, ret |-> "void", pre |-> quota, at |-> now]
    /\ steps = 0
    /\ retry = NoCallers
    /\ active = {}
    /\ client = NewXApiClient(DefaultClientConfig)
    /\ rateLimitStates = EmptyMap
    /\ ops = NoCallers
    /\ mock = NoCallers

NextTracker ==
    \/ TRecordReads \/ TRecordWrites \/ TRecordCacheHit \/ TSetActiveUsers
    \/ TReset \/ TCheckAndReset \/ TLoadState
    \/ CGetQuotaState \/ CGetQuotaLevel
    \/ TGetState \/ TGetLevel \/ TCanRead \/ TCanWrite \/ TCanSystemRead
    \/ TGetFairShareReads \/ TGetRemainingReads \/ TGetRemainingWrites
    \/ TGetCacheHitRate \/ TGetPollingMultiplier \/ TGetStatusMessage
    \/ Tick

SpecTracker == InitTracker /\ [][NextTracker]_vars

(***************************************************************************)
(* withRetry driven directly: fn is any operation, which resolves with a   *)
(* value or rejects with an XApiError at each invocation.                  *)
(***************************************************************************)
FnValues == {"a", "b"}

\* The errors fn may raise (id is set at the invocation that raises it).
FnErrors ==
    { XApiError(0, "not found", 404, <<"GET", <<"2", "tweets">>>>, NoReset),
      XApiError(0, "rate limited", 429, <<"GET", <<"2", "tweets">>>>, NoReset),
      XApiError(0, "rate limited", 429, <<"GET", <<"2", "tweets">>>>, <<2>>),
      XApiError(0, "rate limited", 429, <<"GET", <<"2", "tweets">>>>, <<-2000>>),
      XApiError(0, "server error", 503, <<"GET", <<"2", "tweets">>>>, <<2>>),
      [XApiError(0, "rate limited", 429, <<"GET", <<"2", "tweets">>>>, NoReset)
          EXCEPT !.retryable = FALSE] }

RCall(p) ==
    /\ retry[p].pc \in {"idle", "returned", "thrown"}
    /\ \E config \in RetryConfigs, onRetry \in BOOLEAN :
          retry' = [retry EXCEPT ![p] = WithRetryCall(config, onRetry)]
    /\ UNCHANGED <<quota, now, last, steps, active, clientVars>>

RResolve(p) ==
    /\ retry[p].pc = "awaitFn"
    /\ \E v \in FnValues :
          retry' = [retry EXCEPT ![p] = [WithRetryResolve(@, v) EXCEPT !.value = v]]
    /\ UNCHANGED <<quota, now, last, steps, active, clientVars>>

RReject(p) ==
    /\ retry[p].pc = "awaitFn"
    /\ \E e \in FnErrors :
          LET err == [e EXCEPT !.id = retry[p].calls]
          IN  \E d \in RetryDelay(err, retry[p].attempt, retry[p].config, now) :
                 retry' = [retry EXCEPT ![p] =
                              [WithRetryReject(@, err, d) EXCEPT !.errs = Append(@, err)]]
    /\ UNCHANGED <<quota, now, last, steps, active, clientVars>>

RWake(p) ==
    /\ retry[p].pc = "sleep"
    /\ retry' = [retry EXCEPT ![p] = WithRetryWake(@)]
    /\ UNCHANGED <<quota, now, last, steps, active, clientVars>>

InitRetry ==
    /\ now = 0
    /\ quota = NewQuotaTracker(DEFAULT_QUOTA_CONFIG, now)
    /\ last = [op |-> "new", arg |-> 0, ret |-> "void", pre |-> quota, at |-> now]
    /\ steps = 0
    /\ retry = [p \in Procs |-> IdleRetry]
    /\ active = {1}
    /\ client = NewXApiClient(DefaultClientConfig)
    /\ rateLimitStates = EmptyMap
    /\ ops = [p \in Procs |-> IdleOp]
    /\ mock = NewMockClient(DEFAULT_QUOTA_CONFIG, 0)

NextRetry ==
    \/ \E p \in active : RCall(p)
    \/ \E p \in active : RResolve(p)
    \/ \E p \in active : RReject(p)
    \/ \E p \in active : RWake(p)
    \/ Tick

SpecRetry == InitRetry /\ [][NextRetry]_vars

(***************************************************************************)
(* The client: a caller makes the operations of XApiClient one after the   *)
(* other, awaiting each; fetch answers each request with any response.     *)
(***************************************************************************)

\* The configurations given to new XApiClient: no credentials (mock mode), a bearer
\* token (live), a bearer and a user token (live), a bearer token with mockMode set.
ClientConfigs ==
    { [bearerToken |-> b, userAccessToken |-> u, mockMode |-> m,
       retryConfig |-> [maxRetries |-> 1, jitter |-> FALSE]] :
         b \in BOOLEAN, u \in BOOLEAN, m \in {<<>>, <<TRUE>>} }

\* params.ids of n tweets: the ids 1 .. n.
Ids(n) == [k \in 1 .. n |-> k]
IdCounts == {0, 1, ChunkSize, ChunkSize + 1, 2 * ChunkSize + 1}

ClientOps ==
    { [kind |-> "getTweets", ids |-> Ids(n), userId |-> ""] : n \in IdCounts }
    \cup { [kind |-> "getUserTimeline", ids |-> <<>>, userId |-> u] : u \in {"u1", "u_2"} }
    \cup { [kind |-> "searchRecent", ids |-> <<>>, userId |-> ""],
           [kind |-> "createTweet", ids |-> <<>>, userId |-> ""] }

\* The responses of fetch: headers, status and statusText.
OkResponses == { [headers |-> NoHeaders, status |-> 200, statusText |-> "OK"],
                 [headers |-> RateLimitHeaders, status |-> 200, statusText |-> "OK"] }
Responses ==
    OkResponses
    \cup { [headers |-> RateLimitHeaders, status |-> 429, statusText |-> "Too Many Requests"],
           [headers |-> NoHeaders, status |-> 503, statusText |-> "Service Unavailable"],
           [headers |-> NoHeaders, status |-> 404, statusText |-> "Not Found"] }

\* Caller p calls operation op (lines 88-207, up to the first await).
Call(p, op) ==
    /\ steps < MaxOps
    /\ ops[p].pc \in {"idle", "done"}
    /\ LET o0 == [IdleOp EXCEPT !.op = op, !.before = quota, !.after = quota,
                                !.chunks = IF op.kind = "getTweets"
                                           THEN ChunkArray(op.ids, ChunkSize) ELSE <<>>,
                                !.i = 1]
           r0 == WithRetryCall(client.retryConfig, TRUE)
           o1 == Proceed(o0, quota, r0)
       IN  IF client.mockMode
           THEN /\ quota' = MockCall(quota, op)
                /\ ops' = [ops EXCEPT ![p] = Returns(o0, quota')]
                /\ retry' = [retry EXCEPT ![p] = IdleRetry]
           ELSE /\ quota' = quota
                /\ ops' = [ops EXCEPT ![p] = o1]
                /\ retry' = [retry EXCEPT ![p] = IF o1.pc = "request" THEN r0 ELSE IdleRetry]
    /\ steps' = steps + 1
    /\ UNCHANGED <<now, last, active, client, rateLimitStates>>

\* fetch resolves the request of caller p with resp (lines 261-288): the rate-limit
\* headers are parsed and stored; a response that is not ok, or whose reset header
\* holds no number, makes fn throw into withRetry's catch block, and the operation
\* throws or sleeps; an ok response leaves fn at response.json() with the body unread.
Respond(p, resp) ==
    /\ ops[p].pc = "request"
    /\ retry[p].pc = "awaitFn"
    /\ ops[p].awaiting = "fetch"
    /\ LET o == ops[p]
           r == retry[p]
           endpoint == EndpointOf(MethodOf(o.op), PathOf(o.op))
           entries == HeaderEntries(resp.headers)
           parsed == ParseRateLimitHeaders(entries)
           invalid == ThrowsRangeError(entries)
           err == IF invalid THEN RangeError(r.calls)
                  ELSE ResponseError(r.calls, resp, endpoint, parsed)
       IN  /\ rateLimitStates' =
                 IF invalid THEN rateLimitStates
                 ELSE StoreRateLimit(rateLimitStates, endpoint, parsed, client.userAccessToken)
           /\ IF ~invalid /\ ResponseOk(resp.status)
              THEN /\ ops' = [ops EXCEPT ![p].awaiting = "json"]
                   /\ UNCHANGED <<quota, retry>>
              ELSE \E d \in RetryDelay(err, r.attempt, r.config, now) :
                      LET r1 == [WithRetryReject(r, err, d) EXCEPT !.errs = Append(@, err)]
                          s2 == Settle(o, quota, r, r1, client.retryConfig)
                      IN  /\ ops' = [ops EXCEPT ![p] = s2.op]
                          /\ quota' = s2.quota
                          /\ retry' = [retry EXCEPT ![p] = s2.retry]
    /\ UNCHANGED <<now, last, steps, active, client, mock>>

\* fetch rejects the request of caller p (line 261) with a TypeError: fn throws it
\* into withRetry's catch block, which rethrows it, its statusCode being undefined.
FetchRejects(p, message) ==
    /\ ops[p].pc = "request"
    /\ retry[p].pc = "awaitFn"
    /\ ops[p].awaiting = "fetch"
    /\ LET r == retry[p]
           err == JsError(r.calls, message)
       IN  \E d \in RetryDelay(err, r.attempt, r.config, now) :
              LET r1 == [WithRetryReject(r, err, d) EXCEPT !.errs = Append(@, err)]
                  s2 == Settle(ops[p], quota, r, r1, client.retryConfig)
              IN  /\ ops' = [ops EXCEPT ![p] = s2.op]
                  /\ quota' = s2.quota
                  /\ retry' = [retry EXCEPT ![p] = s2.retry]
    /\ UNCHANGED <<now, last, steps, active, client, rateLimitStates, mock>>

\* response.json() of caller p's ok response settles (line 290): with a value, which
\* withRetry and request() return, so that the operation records its read or write
\* and goes on; or with a SyntaxError, which withRetry's catch block rethrows.
ReadBody(p, body) ==
    /\ ops[p].pc = "request"
    /\ retry[p].pc = "awaitFn"
    /\ ops[p].awaiting = "json"
    /\ LET r == retry[p]
           err == JsError(r.calls, body.message)
       IN  \E d \in RetryDelay(err, r.attempt, r.config, now) :
              LET r1 == IF body.resolves
                        THEN [WithRetryResolve(r, body.value) EXCEPT !.value = body.value]
                        ELSE [WithRetryReject(r, err, d) EXCEPT !.errs = Append(@, err)]
                  s2 == Settle(ops[p], quota, r, r1, client.retryConfig)
              IN  /\ ops' = [ops EXCEPT ![p] = s2.op]
                  /\ quota' = s2.quota
                  /\ retry' = [retry EXCEPT ![p] = s2.retry]
    /\ UNCHANGED <<now, last, steps, active, client, rateLimitStates, mock>>

\* sleep(delay) of caller p's withRetry resolves.
SleepDone(p) ==
    /\ ops[p].pc = "request"
    /\ retry[p].pc = "sleep"
    /\ LET s2 == Settle(ops[p], quota, retry[p], WithRetryWake(retry[p]), client.retryConfig)
       IN  /\ ops' = [ops EXCEPT ![p] = s2.op]
           /\ quota' = s2.quota
           /\ retry' = [retry EXCEPT ![p] = s2.retry]
    /\ UNCHANGED <<now, last, steps, active, client, rateLimitStates, mock>>

ClientCall(p) == \E op \in ClientOps : Call(p, op) /\ UNCHANGED mock
FetchRespond(p) == \E resp \in Responses : Respond(p, resp)
FetchFail(p) == \E message \in FetchFailures : FetchRejects(p, message)
FetchReadBody(p) == \E body \in JsonBodies : ReadBody(p, body)

Init ==
    /\ now = 0
    /\ quota = NewQuotaTracker(ClientQuotaConfig, now)
    /\ last = [op |-> "new", arg |-> 0, ret |-> "void", pre |-> quota, at |-> now]
    /\ steps = 0
    /\ retry = [p \in Procs |-> IdleRetry]
    /\ active = {1}
    /\ \E config \in ClientConfigs : client = NewXApiClient(config)
    /\ rateLimitStates = EmptyMap
    /\ ops = [p \in Procs |-> IdleOp]
    /\ mock = NewMockClient(ClientQuotaConfig, now)

Next ==
    \/ \E p \in active : ClientCall(p)
    \/ \E p \in active : FetchRespond(p)
    \/ \E p \in active : FetchFail(p)
    \/ \E p \in active : FetchReadBody(p)
    \/ \E p \in active : SleepDone(p)
    \/ Tick

Spec == Init /\ [][Next]_vars

(***************************************************************************)
(* A live client whose transport always succeeds and a mock-mode client,   *)
(* given the same operations one after the other.                          *)
(***************************************************************************)

\* The mock-mode client is given op: mockMode is set, so the operation is its mock.
MockClientCall(m, op) ==
    [m EXCEPT !.quota = MockCall(@, op), !.outcome = "ok"]

PairCall(p) == \E op \in ClientOps : Call(p, op) /\ mock' = MockClientCall(mock, op)
PairRespond(p) == \E resp \in OkResponses : Respond(p, resp)

\* The body of a response of the transport that succeeds is a JSON object.
JsonReadBody(p) == ReadBody(p, JsonObject)

InitPair ==
    /\ now = 0
    /\ quota = NewQuotaTracker(ClientQuotaConfig, now)
    /\ last = [op |-> "new", arg |-> 0, ret |-> "void", pre |-> quota, at |-> now]
    /\ steps = 0
    /\ retry = [p \in Procs |-> IdleRetry]
    /\ active = {1}
    /\ \E config \in ClientConfigs :
          /\ client = NewXApiClient(config)
          /\ ~client.mockMode
    /\ rateLimitStates = EmptyMap
    /\ ops = [p \in Procs |-> IdleOp]
    /\ mock = NewMockClient(ClientQuotaConfig, now)

NextPair ==
    \/ \E p \in active : PairCall(p)
    \/ \E p \in active : PairRespond(p)
    \/ \E p \in active : JsonReadBody(p)

SpecPair == InitPair /\ [][NextPair]_vars

(***************************************************************************)
(* A live client whose responses carry different rate-limit headers, all   *)
(* three, some or none of them: what request() keeps in rateLimitStates.   *)
(***************************************************************************)

LimitOps ==
    { [kind |-> "getUserTimeline", ids |-> <<>>, userId |-> u] : u \in {"u1", "u_2"} }
    \cup { [kind |-> "getTweets", ids |-> Ids(1), userId |-> ""],
           [kind |-> "searchRecent", ids |-> <<>>, userId |-> ""],
           [kind |-> "createTweet", ids |-> <<>>, userId |-> ""] }

LimitResponses ==
    { [headers |-> RateLimitHeaders, status |-> 200, statusText |-> "OK"],
      [headers |-> OtherRateLimitHeaders, status |-> 200, statusText |-> "OK"],
      [headers |-> PartialRateLimitHeaders, status |-> 200, statusText |-> "OK"],
      [headers |-> RateLimitHeaders, status |-> 429, statusText |-> "Too Many Requests"],
      [headers |-> OtherRateLimitHeaders, status |-> 404, statusText |-> ""] }

LimitsCall(p) == \E op \in LimitOps : Call(p, op) /\ UNCHANGED mock
LimitsRespond(p) == \E resp \in LimitResponses : Respond(p, resp)

InitLimits ==
    /\ now = 0
    /\ quota = NewQuotaTracker(ClientQuotaConfig, now)
    /\ last = [op |-> "new", arg |-> 0, ret |-> "void", pre |-> quota, at |-> now]
    /\ steps = 0
    /\ retry = [p \in Procs |-> IdleRetry]
    /\ active = {1}
    /\ \E config \in ClientConfigs :
          /\ client = NewXApiClient(config)
          /\ ~client.mockMode
    /\ rateLimitStates = EmptyMap
    /\ ops = [p \in Procs |-> IdleOp]
    /\ mock = NewMockClient(ClientQuotaConfig, now)

NextLimits ==
    \/ \E p \in active : LimitsCall(p)
    \/ \E p \in active : LimitsRespond(p)
    \/ \E p \in active : FetchFail(p)
    \/ \E p \in active : FetchReadBody(p)
    \/ \E p \in active : SleepDone(p)

SpecLimits == InitLimits /\ [][NextLimits]_vars

(***************************************************************************)
(* The functions of retry.ts called directly, with arguments drawn from    *)
(* small sets: isRetryable, calculateDelay, parseRateLimitHeaders and      *)
(* delayUntilReset.  last holds the latest call and what it returned.      *)
(***************************************************************************)

\* HTTP status codes.
StatusCodes ==
    {100, 200, 201, 204, 299, 301, 400, 401, 403, 404, 422, 428, 429, 430, 499,
     500, 501, 502, 503, 504, 505, 506, 511, 599}

\* RetryConfig values: small delays (whole milliseconds) with the multipliers 0.5, 1,
\* 1.5, 2 and 3, with and without jitter; the default delays without jitter, with
\* maxDelayMs 60000 and 3000; and the default delays with the multiplier 1.5 and
\* four retries (1000 * 1.5^4 is 5062.5).
DelayConfigs ==
    { [maxRetries |-> MaxRetries, baseDelayMs |-> b, maxDelayMs |-> m,
       backoffMultiplier |-> k, jitter |-> j] :
         b \in {1, 2, 3}, m \in {3, 5, 8}, k \in {50, 100, 150, 200, 300}, j \in BOOLEAN }
    \cup { [DEFAULT_RETRY_CONFIG EXCEPT !.maxDelayMs = m, !.jitter = FALSE] :
              m \in {3000, 60000} }
    \cup { [DEFAULT_RETRY_CONFIG EXCEPT !.maxRetries = 4, !.backoffMultiplier = 150,
                                         !.jitter = FALSE] }

\* Header maps as a caller may hand them to parseRateLimitHeaders: the keys as
\* written, the values strings.
HeaderValues(limit, remaining, reset) ==
    [n \in {"x-rate-limit-limit", "x-rate-limit-remaining", "x-rate-limit-reset"} |->
        CASE n = "x-rate-limit-limit" -> limit
          [] n = "x-rate-limit-remaining" -> remaining
          [] OTHER -> reset]

Without(headers, key) == [n \in DOMAIN headers \ {key} |-> headers[n]]

\* The object with the headers of the list raw as its properties, names as written.
ObjectOf(raw) ==
    [n \in { raw[i][1] : i \in DOMAIN raw } |->
        raw[CHOOSE i \in DOMAIN raw : raw[i][1] = n][2]]

HeaderMaps ==
    LET full == HeaderValues("900", "450", "17")
    IN  { full, HeaderValues("900", "0", "17"),
          HeaderValues("900", "", "17"),
          Without(full, "x-rate-limit-limit"), Without(full, "x-rate-limit-remaining"),
          Without(full, "x-rate-limit-reset"),
          Without(Without(full, "x-rate-limit-remaining"), "x-rate-limit-reset"),
          ObjectOf(NoHeaders), ObjectOf(RateLimitHeaders) }

\* Reset times, in milliseconds on the clock's scale.
ResetTimes == {-60000, -2000, -1000, -999, -998, -500, 0, 1, 2, 3, 4, 500, 60000}

FIsRetryable == \E c \in StatusCodes : Observe("isRetryable", c, IsRetryable(c))

FCalculateDelay ==
    \E config \in DelayConfigs : \E attempt \in 0 .. config.maxRetries :
        \E d \in CalculateDelay(attempt, config) :
            Observe("calculateDelay", <<attempt, config>>, d)

FParseRateLimitHeaders ==
    \E h \in HeaderMaps : Observe("parseRateLimitHeaders", h, ParseRateLimitHeaders(h))

FDelayUntilReset ==
    \E resetAt \in ResetTimes : Observe("delayUntilReset", resetAt, DelayUntilReset(resetAt, now))

InitFunctions ==
    /\ now = 0
    /\ quota = NewQuotaTracker(DEFAULT_QUOTA_CONFIG, now)
    /\ last = [op |-> "new", arg |-> 0, ret |-> "void", pre |-> quota, at |-> now]
    /\ steps = 0
    /\ retry = [p \in Procs |-> IdleRetry]
    /\ active = {}
    /\ client = NewXApiClient(DefaultClientConfig)
    /\ rateLimitStates = EmptyMap
    /\ ops = [p \in Procs |-> IdleOp]
    /\ mock = NewMockClient(DEFAULT_QUOTA_CONFIG, 0)

NextFunctions ==
    \/ FIsRetryable
    \/ FCalculateDelay
    \/ FParseRateLimitHeaders
    \/ FDelayUntilReset
    \/ Tick

SpecFunctions == InitFunctions /\ [][NextFunctions]_vars

(***************************************************************************)
(* A live client with several callers: each calls an operation without     *)
(* waiting for the others, so that the operations interleave at their      *)
(* awaits (await this.request, await fetch, await sleep).                  *)
(***************************************************************************)

ConcurrentOps ==
    { [kind |-> "getTweets", ids |-> Ids(2 * ChunkSize + 1), userId |-> ""],
      [kind |-> "getUserTimeline", ids |-> <<>>, userId |-> "u1"],
      [kind |-> "searchRecent", ids |-> <<>>, userId |-> ""] }

\* Responses without rate-limit headers: a success and a retryable failure.
PlainResponses ==
    { [headers |-> NoHeaders, status |-> 200, statusText |-> "OK"],
      [headers |-> NoHeaders, status |-> 503, statusText |-> "Service Unavailable"] }

ConcurrentCall(p) == \E op \in ConcurrentOps : Call(p, op) /\ UNCHANGED mock
PlainRespond(p) == \E resp \in PlainResponses : Respond(p, resp)

InitConcurrent ==
    /\ now = 0
    /\ quota = NewQuotaTracker(ClientQuotaConfig, now)
    /\ last = [op |-> "new", arg |-> 0, ret |-> "void", pre |-> quota, at |-> now]
    /\ steps = 0
    /\ retry = [p \in Procs |-> IdleRetry]
    /\ active = Procs
    /\ \E config \in ClientConfigs :
          /\ client = NewXApiClient(config)
          /\ ~client.mockMode
    /\ rateLimitStates = EmptyMap
    /\ ops = [p \in Procs |-> IdleOp]
    /\ mock = NewMockClient(ClientQuotaConfig, now)

NextConcurrent ==
    \/ \E p \in active : ConcurrentCall(p)
    \/ \E p \in active : PlainRespond(p)
    \/ \E p \in active : JsonReadBody(p)
    \/ \E p \in active : SleepDone(p)

SpecConcurrent == InitConcurrent /\ [][NextConcurrent]_vars

(***************************************************************************)
(* A live client across the end of a month: it is made one tick before the *)
(* reset date, with a budget of one user read and one write, and its       *)
(* caller makes operations and quota queries while the clock advances.     *)
(***************************************************************************)

RolloverOps ==
    { [kind |-> "getTweets", ids |-> Ids(1), userId |-> ""],
      [kind |-> "getUserTimeline", ids |-> <<>>, userId |-> "u1"],
      [kind |-> "searchRecent", ids |-> <<>>, userId |-> ""],
      [kind |-> "createTweet", ids |-> <<>>, userId |-> ""] }

RolloverCall(p) == \E op \in RolloverOps : Call(p, op) /\ UNCHANGED mock

InitRollover ==
    /\ now = MonthLen - 1
    /\ quota = NewQuotaTracker(RolloverQuotaConfig, now)
    /\ last = [op |-> "new", arg |-> 0, ret |-> "void", pre |-> quota, at |-> now]
    /\ steps = 0
    /\ retry = [p \in Procs |-> IdleRetry]
    /\ active = {1}
    /\ \E config \in ClientConfigs :
          /\ client = NewXApiClient(config)
          /\ ~client.mockMode
    /\ rateLimitStates = EmptyMap
    /\ ops = [p \in Procs |-> IdleOp]
    /\ mock = NewMockClient(RolloverQuotaConfig, now)

NextRollover ==
    \/ \E p \in active : RolloverCall(p)
    \/ \E p \in active : PlainRespond(p)
    \/ \E p \in active : JsonReadBody(p)
    \/ \E p \in active : SleepDone(p)
    \/ CGetQuotaState
    \/ CGetQuotaLevel
    \/ Tick

SpecRollover == InitRollover /\ [][NextRollover]_vars

(***************************************************************************)
(* The tracker driven directly, made with a reserve whose share of the cap *)
(* is a whole number of reads that the doubles of canRead fall short of.   *)
(***************************************************************************)
ReserveConfigs ==
    { [DEFAULT_QUOTA_CONFIG EXCEPT !.monthlyReadCap = 30000, !.reservePercent = 55],
      [SmallQuotaConfig EXCEPT !.monthlyReadCap = 5, !.reservePercent = 80] }

InitReserve ==
    /\ now = MonthLen - 1
    /\ \E cfg \in ReserveConfigs : quota = NewQuotaTracker(cfg, now)
    /\ last = [op |-> "new", arg |-> 0, ret |-> "void", pre |-> quota, at |-> now]
    /\ steps = 0
    /\ retry = [p \in Procs |-> IdleRetry]
    /\ active = {}
    /\ client = NewXApiClient(DefaultClientConfig)
    /\ rateLimitStates = EmptyMap
    /\ ops = [p \in Procs |-> IdleOp]
    /\ mock = NewMockClient(DEFAULT_QUOTA_CONFIG, 0)

SpecReserve == InitReserve /\ [][NextTracker]_vars

(***************************************************************************)
(* Claims                                                                  *)
(***************************************************************************)

\* Every error fn raised in activation r had a retryable status (429, 500..504).
AllRetryable(r) == \A i \in 1 .. Len(r.errs) : IsRetryable(r.errs[i].statusCode)

\* C1: with maxRetries >= 0, fn is never invoked more than maxRetries + 1 times; while
\* every invocation has failed with a retryable status, withRetry goes on to wait and
\* retry until fn has been invoked maxRetries + 1 times, and then it rejects.
C1_RetryableExhausts ==
    \A p \in Procs :
        LET r == retry[p]
            failedEvery == r.calls >= 1 /\ Len(r.errs) = r.calls /\ AllRetryable(r)
        IN  r.config.maxRetries >= 0 =>
              /\ r.calls <= r.config.maxRetries + 1
              /\ (failedEvery /\ r.calls < r.config.maxRetries + 1) => r.pc = "sleep"
              /\ (failedEvery /\ r.calls = r.config.maxRetries + 1) => r.pc = "thrown"
              /\ (r.pc = "thrown" /\ AllRetryable(r)) => r.calls = r.config.maxRetries + 1

C1_Witness ==
    \E p \in Procs :
        /\ retry[p].pc = "thrown" /\ retry[p].config.maxRetries = 2
        /\ retry[p].calls = 3 /\ Len(retry[p].errs) = 3 /\ AllRetryable(retry[p])

\* C2: once fn has failed with a non-retryable status, at whatever attempt, withRetry
\* has thrown that very error, fn is not invoked again, and no hook call and no sleep
\* follows the failure (a failure at the first attempt: one invocation, no hook, no sleep).
C2_NonRetryableOnce ==
    \A p \in Procs :
        LET r == retry[p]
            n == Len(r.errs)
        IN  (n >= 1 /\ ~IsRetryable(r.errs[n].statusCode)) =>
              /\ r.pc = "thrown"
              /\ r.thrown = r.errs[n]
              /\ r.calls = n
              /\ Len(r.sleeps) = n - 1
              /\ Len(r.hooks) = (IF r.onRetry THEN n - 1 ELSE 0)
              /\ \A i \in 1 .. Len(r.hooks) : r.hooks[i][3] # r.errs[n]

C2_Witness ==
    \E p \in Procs :
        /\ Len(retry[p].errs) = 2 /\ retry[p].errs[2].statusCode = 404
        /\ retry[p].pc = "thrown" /\ retry[p].calls = 2 /\ Len(retry[p].hooks) = 1

\* C3: as soon as an invocation of fn resolves, withRetry has returned that value; the
\* k failures before it were k <= maxRetries retryable ones, fn was invoked k + 1
\* times, and there were k sleeps and (with a hook) k hook calls, none after the success.
C3_ReturnsOnSuccess ==
    \A p \in Procs :
        LET r == retry[p]
            k == Len(r.errs)
        IN  /\ r.value # "none" => r.pc = "returned"
            /\ r.pc = "returned" =>
                  /\ r.result = r.value /\ r.value # "none"
                  /\ k <= r.config.maxRetries
                  /\ r.calls = k + 1
                  /\ Len(r.sleeps) = k
                  /\ Len(r.hooks) = (IF r.onRetry THEN k ELSE 0)
                  /\ AllRetryable(r)

C3_Witness ==
    \E p \in Procs :
        /\ retry[p].pc = "returned" /\ Len(retry[p].errs) = 2 /\ retry[p].calls = 3
        /\ retry[p].result = "b"

\* C4: when withRetry throws after fn failed, the error thrown is the one the last
\* invocation of fn raised (the same object), not that of an earlier attempt.
C4_ThrowsLastError ==
    \A p \in Procs :
        LET r == retry[p]
        IN  (r.pc = "thrown" /\ Len(r.errs) >= 1) =>
              /\ r.thrown = r.errs[Len(r.errs)]
              /\ r.thrown.id = r.calls

C4_Witness ==
    \E p \in Procs :
        /\ retry[p].pc = "thrown" /\ Len(retry[p].errs) = 3
        /\ retry[p].errs[1].statusCode = 429 /\ retry[p].errs[3].statusCode = 503
        /\ retry[p].thrown = retry[p].errs[3]

\* C8: readsUsed and writesUsed are never negative, and a call other than reset,
\* loadState and a checkAndReset that resets (called directly, or by the client's
\* getQuotaState and getQuotaLevel) leaves each of them equal or larger.
C8_CountersMonotone ==
    /\ quota.readsUsed >= 0
    /\ quota.writesUsed >= 0
    /\ (/\ last.op \notin {"new", "reset", "loadState"}
        /\ ~(last.op = "checkAndReset" /\ last.ret = TRUE)
        /\ ~(last.op \in {"getQuotaState", "getQuotaLevel"} /\ last.at >= last.pre.resetDate))
       => /\ quota.readsUsed >= last.pre.readsUsed
          /\ quota.writesUsed >= last.pre.writesUsed

\* C9 as stated: canRead(n) returns true iff readsUsed + n <= readCap * (1 -
\* reservePercent), the product taken exactly; with the default configuration
\* canRead(13500) is true at readsUsed = 0 and canRead(1) is false at readsUsed = 13500.
C9_CanRead ==
    last.op = "canRead" =>
        LET budget100 == quota.config.monthlyReadCap * 100
                           - quota.config.monthlyReadCap * quota.config.reservePercent
        IN  /\ last.ret = TRUE <=> (quota.readsUsed + last.arg) * 100 <= budget100
            /\ (quota.config = DEFAULT_QUOTA_CONFIG /\ quota.readsUsed = 0 /\ last.arg = 13500)
                  => last.ret = TRUE
            /\ (quota.config = DEFAULT_QUOTA_CONFIG /\ quota.readsUsed = 13500 /\ last.arg = 1)
                  => last.ret = FALSE

\* C10: canSystemRead(n) returns true iff readsUsed + n <= readCap; whenever canRead(n)
\* is true so is canSystemRead(n); with the default configuration at 90% usage
\* canRead(1) is false and canSystemRead(1) true; at 100% usage canSystemRead(1) is false.
C10_CanSystemRead ==
    /\ last.op = "canSystemRead" =>
          (last.ret = TRUE <=> quota.readsUsed + last.arg <= quota.config.monthlyReadCap)
    /\ \A n \in QueryCounts : CanRead(quota, n) => CanSystemRead(quota, n)
    /\ (quota.config = DEFAULT_QUOTA_CONFIG /\ quota.readsUsed = 13500)
          => ~CanRead(quota, 1) /\ CanSystemRead(quota, 1)
    /\ quota.readsUsed = quota.config.monthlyReadCap => ~CanSystemRead(quota, 1)

C10_Witness ==
    /\ last.op = "canSystemRead" /\ last.arg = 1 /\ last.ret = TRUE
    /\ quota.config = DEFAULT_QUOTA_CONFIG /\ quota.readsUsed = 13500
    /\ ~CanRead(quota, 1)

\* The read operations of the client.
ReadKinds == {"getTweets", "getUserTimeline", "searchRecent"}

\* canRead(1) was false when operation o was called.
GateClosedAtCall(o) == ~CanRead(o.before, 1)

\* Operation o of caller p failed at once with the quota error: no request, no fetch,
\* no hook call, no sleep, and the counters as they were at the call.
FailedAtGate(p) ==
    LET o == ops[p]
    IN  /\ o.pc = "done" /\ o.outcome = "error"
        /\ o.error.statusCode = 429
        /\ o.error = QuotaError(o.op)
        /\ o.requests = <<>> /\ o.fetches = 0
        /\ retry[p].calls = 0 /\ retry[p].hooks = <<>> /\ retry[p].sleeps = <<>>
        /\ o.after.readsUsed = o.before.readsUsed
        /\ o.after.writesUsed = o.before.writesUsed

\* C5 as stated: every live read operation called while canRead(1) is false fails at
\* once with the quota-exhausted error, without a transport call, a retry or a sleep,
\* and leaves the counters unchanged.
C5_ReadFailsAtGate ==
    \A p \in Procs :
        (/\ ~client.mockMode
         /\ ops[p].pc # "idle"
         /\ ops[p].op.kind \in ReadKinds
         /\ GateClosedAtCall(ops[p]))
        => FailedAtGate(p)

\* C5 amended: getUserTimeline, searchRecent, and getTweets with at least one id,
\* called in live mode while canRead(1) is false, fail at once with the
\* quota-exhausted error, without a transport call, a retry or a sleep, and leave the
\* counters unchanged (getTweets with no ids returns an empty result instead).
C5_NonEmptyReadFailsAtGate ==
    \A p \in Procs :
        (/\ ~client.mockMode
         /\ ops[p].pc # "idle"
         /\ ops[p].op.kind \in ReadKinds
         /\ (ops[p].op.kind = "getTweets" => Len(ops[p].op.ids) >= 1)
         /\ GateClosedAtCall(ops[p]))
        => FailedAtGate(p)

C5_Witness ==
    \E p \in Procs :
        /\ ~client.mockMode
        /\ ops[p].op.kind = "getTweets" /\ Len(ops[p].op.ids) = ChunkSize + 1
        /\ ops[p].before.readsUsed = 4
        /\ GateClosedAtCall(ops[p])
        /\ FailedAtGate(p)

RECURSIVE RequestedIds(_)
\* The ids carried by the requests, in the order the requests were made.
RequestedIds(requests) ==
    IF requests = <<>> THEN <<>>
    ELSE RequestedIds(SubSeq(requests, 1, Len(requests) - 1)) \o requests[Len(requests)].ids

\* C6: a live getTweets with N ids that has succeeded made exactly ceil(N / 100)
\* requests, each to GET /2/tweets with at least 1 and at most 100 ids, the ids of the
\* requests taken together being the input ids in input order, and it recorded one read
\* per request: readsUsed grew by ceil(N / 100), writesUsed not at all.
C6_OneReadPerChunk ==
    \A p \in Procs :
        LET o == ops[p]
            n == Len(o.op.ids)
            c == (n + 99) \div 100
        IN  (/\ ~client.mockMode
             /\ o.op.kind = "getTweets"
             /\ o.pc = "done" /\ o.outcome = "ok")
            => /\ Len(o.requests) = c
               /\ \A k \in 1 .. Len(o.requests) :
                     /\ o.requests[k].method = "GET"
                     /\ o.requests[k].path = <<"2", "tweets">>
                     /\ Len(o.requests[k].ids) >= 1
                     /\ Len(o.requests[k].ids) <= 100
               /\ RequestedIds(o.requests) = o.op.ids
               /\ o.fetches >= c
               /\ o.after.readsUsed = o.before.readsUsed + c
               /\ o.after.writesUsed = o.before.writesUsed

C6_Witness ==
    \E p \in Procs :
        /\ ~client.mockMode
        /\ ops[p].op.kind = "getTweets" /\ Len(ops[p].op.ids) = 201
        /\ ops[p].pc = "done" /\ ops[p].outcome = "ok"
        /\ Len(ops[p].requests) = 3 /\ Len(ops[p].requests[3].ids) = 1
        /\ ops[p].fetches = 4
        /\ ops[p].after.readsUsed = ops[p].before.readsUsed + 3

\* C7: whenever the live client (its transport always succeeding) has completed the
\* operations given so far, it and the mock-mode client given the same operations have
\* the same readsUsed and the same writesUsed, the last operation was admitted by both
\* or refused for quota by both, and the mock-mode client has made no transport call.
C7_MockMatchesLive ==
    \A p \in active :
        ops[p].pc = "done" =>
            /\ mock.quota.readsUsed = quota.readsUsed
            /\ mock.quota.writesUsed = quota.writesUsed
            /\ (mock.outcome = "ok") = (ops[p].outcome = "ok")
            /\ mock.fetches = 0

\* C11: canWrite(n) is true iff writesUsed + n <= writeCap; a live createTweet called
\* when writesUsed + 1 > writeCap fails with the write-quota error without a request,
\* a fetch or a change of the counters; a live createTweet that has succeeded raised
\* writesUsed by exactly 1 and left readsUsed alone; and with one caller awaiting each
\* operation the writesUsed of a live client never exceeds writeCap.
C11_WriteGate ==
    /\ \A n \in QueryCounts :
          CanWrite(quota, n) <=> (quota.writesUsed + n <= quota.config.monthlyWriteCap)
    /\ ~client.mockMode => quota.writesUsed <= quota.config.monthlyWriteCap
    /\ \A p \in Procs :
          LET o == ops[p]
          IN  (~client.mockMode /\ o.op.kind = "createTweet" /\ o.pc # "idle") =>
                /\ (o.before.writesUsed + 1 > o.before.config.monthlyWriteCap) =>
                      /\ o.pc = "done" /\ o.outcome = "error"
                      /\ o.error = QuotaError(o.op)
                      /\ o.error.statusCode = 429
                      /\ o.error.endpoint = <<"POST", <<"2", "tweets">>>>
                      /\ o.requests = <<>> /\ o.fetches = 0 /\ retry[p].calls = 0
                      /\ o.after.writesUsed = o.before.writesUsed
                      /\ o.after.readsUsed = o.before.readsUsed
                /\ (o.pc = "done" /\ o.outcome = "ok") =>
                      /\ o.after.writesUsed = o.before.writesUsed + 1
                      /\ o.after.readsUsed = o.before.readsUsed
                      /\ Len(o.requests) = 1
                /\ (o.pc = "request") =>
                      o.before.writesUsed + 1 <= o.before.config.monthlyWriteCap

C11_Witness ==
    \E p \in Procs :
        /\ ~client.mockMode
        /\ ops[p].op.kind = "createTweet"
        /\ ops[p].before.writesUsed = ops[p].before.config.monthlyWriteCap
        /\ ops[p].pc = "done" /\ ops[p].outcome = "error"
        /\ ops[p].fetches = 0
        /\ quota.writesUsed = quota.config.monthlyWriteCap

\* readCap * (1 - reservePercent), in hundredths of a read.
UserBudget100(q) == q.config.monthlyReadCap * (100 - q.config.reservePercent)

\* C12 as stated: the value getFairShareReads() returns is at most
\* readCap * (1 - reservePercent), whatever the number of active users.
C12_FairShareWithinBudget ==
    last.op = "getFairShareReads" => last.ret * 100 <= UserBudget100(quota)

\* C12 amended: the value getFairShareReads() returns is at most 1.2 times
\* readCap * (1 - reservePercent), whatever the number of active users, and at most
\* readCap * (1 - reservePercent) when there are two active users or more.
C12_FairShareWithinBufferedBudget ==
    last.op = "getFairShareReads" =>
        /\ last.ret * 1000 <= UserBudget100(quota) * 12
        /\ quota.activeUsers >= 2 => last.ret * 100 <= UserBudget100(quota)

C12_Witness ==
    /\ last.op = "getFairShareReads"
    /\ quota.config = DEFAULT_QUOTA_CONFIG
    /\ quota.activeUsers = 10
    /\ last.ret = 1620

\* C13: setActiveUsers(n) leaves activeUsers = max(1, n), and getFairShareReads()
\* returns floor(readCap * (1 - reservePercent) / activeUsers * 1.2) for the
\* activeUsers of the moment (1 in a new tracker).
C13_FairShareFormula ==
    /\ last.op = "new" => quota.activeUsers = 1
    /\ last.op = "setActiveUsers" =>
          quota.activeUsers = (IF last.arg >= 1 THEN last.arg ELSE 1)
    /\ last.op = "getFairShareReads" =>
          last.ret = (UserBudget100(quota) * 12) \div (1000 * quota.activeUsers)

\* usage < t / 100, for usage = readsUsed / readCap: with a cap of 0 the usage is
\* -Infinity, below every threshold, when readsUsed is negative, Infinity when it is
\* positive, and not a number, below nothing, when it is 0.
UsageBelow(q, t) ==
    IF q.config.monthlyReadCap = 0 THEN q.readsUsed < 0
    ELSE IF q.config.monthlyReadCap > 0 THEN q.readsUsed * 100 < t * q.config.monthlyReadCap
    ELSE q.readsUsed * 100 > t * q.config.monthlyReadCap

\* usage >= t / 100, likewise.
UsageFrom(q, t) ==
    IF q.config.monthlyReadCap = 0 THEN q.readsUsed > 0
    ELSE IF q.config.monthlyReadCap > 0 THEN q.readsUsed * 100 >= t * q.config.monthlyReadCap
    ELSE q.readsUsed * 100 <= t * q.config.monthlyReadCap

\* The usage of tracker q lies in the band of the level, by the thresholds of the
\* configuration.
InBand(q, level) ==
    CASE level = "normal" -> UsageBelow(q, q.config.warningThreshold)
      [] level = "warning" ->
            UsageFrom(q, q.config.warningThreshold) /\ UsageBelow(q, q.config.criticalThreshold)
      [] level = "critical" -> UsageFrom(q, q.config.criticalThreshold) /\ UsageBelow(q, 100)
      [] level = "exhausted" -> UsageFrom(q, 100)

\* C14: getLevel() returns the band of usage = readsUsed / readCap: normal below the
\* warning threshold, warning from it to below the critical threshold, critical from
\* it to below 1, exhausted from 1 on; getPollingMultiplier() returns 1, 2, 4 and
\* Infinity in these bands.
C14_LevelBands ==
    /\ last.op = "getLevel" =>
          \A level \in {"normal", "warning", "critical", "exhausted"} :
              last.ret = level <=> InBand(quota, level)
    /\ last.op = "getPollingMultiplier" =>
          IF InBand(quota, "exhausted") THEN last.ret = "Infinity"
          ELSE /\ last.ret = 1 <=> InBand(quota, "normal")
               /\ last.ret = 2 <=> InBand(quota, "warning")
               /\ last.ret = 4 <=> InBand(quota, "critical")

\* The fields of a QuotaState.
QuotaStateFields ==
    {"monthlyReadsUsed", "monthlyReadsLimit", "monthlyWritesUsed", "monthlyWritesLimit",
     "resetsAt", "cacheHitRate"}

\* C15: after loadState(partial), every QuotaState field that partial does not hold
\* reads as before the call, and cacheHits, totalRequests, activeUsers, the
\* configuration and (when partial holds no resetsAt) the reset date are as before.
C15_LoadStateFrame ==
    last.op = "loadState" =>
        /\ \A f \in QuotaStateFields \ DOMAIN last.arg :
              GetState(quota)[f] = GetState(last.pre)[f]
        /\ quota.cacheHits = last.pre.cacheHits
        /\ quota.totalRequests = last.pre.totalRequests
        /\ quota.activeUsers = last.pre.activeUsers
        /\ quota.config = last.pre.config
        /\ "resetsAt" \notin DOMAIN last.arg => quota.resetDate = last.pre.resetDate

C15_Witness ==
    /\ last.op = "loadState"
    /\ DOMAIN last.arg = {"monthlyReadsUsed"}
    /\ last.pre.writesUsed = 1 /\ quota.writesUsed = 1
    /\ last.pre.readsUsed = 7 /\ quota.readsUsed = 5

\* C16: after loadState(partial), every QuotaState field that partial holds reads, in
\* getState(), as partial gives it; so a whole snapshot loaded is the state read back.
C16_LoadStateOverwrites ==
    last.op = "loadState" =>
        \A f \in DOMAIN last.arg : GetState(quota)[f] = last.arg[f]

\* The reset date d is the first instant of the month after the one instant t is in.
FirstOfNextMonth(d, t) ==
    /\ d % MonthLen = 0
    /\ d > t
    /\ d - t <= MonthLen

\* C17: after reset(), readsUsed, writesUsed, cacheHits and totalRequests are 0, the
\* reset date is the first instant of the month after the one of the call, getLevel()
\* is normal, getCacheHitRate() is 0, and the configuration and activeUsers are as before.
C17_ResetZeroes ==
    last.op = "reset" =>
        /\ quota.readsUsed = 0 /\ quota.writesUsed = 0
        /\ quota.cacheHits = 0 /\ quota.totalRequests = 0
        /\ FirstOfNextMonth(quota.resetDate, last.at)
        /\ GetLevel(quota) = "normal"
        /\ GetCacheHitRate(quota) = 0
        /\ quota.config = last.pre.config
        /\ quota.activeUsers = last.pre.activeUsers

C17_Witness ==
    /\ last.op = "reset"
    /\ last.pre.readsUsed = 13500 /\ last.pre.writesUsed = 1
    /\ quota.readsUsed = 0 /\ quota.writesUsed = 0

\* C18: checkAndReset() returns true iff the clock is at or after the reset date; then
\* the counters are 0 and the reset date is the first instant of the next month, and a
\* second call at the same instant would return false and change nothing; when it
\* returns false the tracker is as before.  The client's getQuotaState() and
\* getQuotaLevel(), called at or after the reset date, report zero counters and
\* normal; called before it, they report the tracker as it is.
C18_CheckAndReset ==
    /\ last.op = "checkAndReset" =>
          /\ last.ret = (last.at >= last.pre.resetDate)
          /\ last.ret = FALSE => quota = last.pre
          /\ last.ret = TRUE =>
                /\ quota.readsUsed = 0 /\ quota.writesUsed = 0
                /\ quota.cacheHits = 0 /\ quota.totalRequests = 0
                /\ FirstOfNextMonth(quota.resetDate, last.at)
                /\ CheckAndResetResult(quota, last.at) = FALSE
                /\ CheckAndReset(quota, last.at) = quota
    /\ last.op = "getQuotaState" =>
          IF last.at >= last.pre.resetDate
          THEN /\ last.ret.monthlyReadsUsed = 0 /\ last.ret.monthlyWritesUsed = 0
               /\ last.ret.cacheHitRate = 0
               /\ quota.readsUsed = 0 /\ quota.writesUsed = 0
          ELSE /\ last.ret.monthlyReadsUsed = last.pre.readsUsed
               /\ last.ret.monthlyWritesUsed = last.pre.writesUsed
               /\ quota = last.pre
    /\ last.op = "getQuotaLevel" =>
          IF last.at >= last.pre.resetDate
          THEN last.ret = "normal" /\ quota.readsUsed = 0
          ELSE last.ret = GetLevel(last.pre) /\ quota = last.pre

C18_Witness ==
    /\ last.op = "getQuotaLevel"
    /\ last.at = last.pre.resetDate
    /\ last.pre.readsUsed = 13500
    /\ last.ret = "normal"

\* The call recorded in last computed the reset date: the construction, reset(), or a
\* checkAndReset() that reset (called directly or by the client's quota queries).
ComputedResetDate ==
    \/ last.op \in {"new", "reset"}
    \/ last.op = "checkAndReset" /\ last.ret = TRUE
    \/ last.op \in {"getQuotaState", "getQuotaLevel"} /\ last.at >= last.pre.resetDate

\* C19: the reset date is always the first instant of a month; when a call computed
\* it, it is the first instant of the month after the one of the call, so later than
\* the call; every other call (record, query, setActiveUsers, loadState) leaves it.
C19_ResetDateNextMonth ==
    /\ quota.resetDate % MonthLen = 0
    /\ ComputedResetDate => FirstOfNextMonth(quota.resetDate, last.at)
    /\ ~ComputedResetDate => quota.resetDate = last.pre.resetDate

C19_Witness ==
    /\ last.op = "reset"
    /\ last.at % MonthLen = 0
    /\ last.pre.resetDate = last.at
    /\ quota.resetDate = last.at + MonthLen

\* Operation of caller p, on a live client, has ended with the error its request threw.
FailedInTransport(p) ==
    /\ ~client.mockMode
    /\ ops[p].pc = "done" /\ ops[p].outcome = "error"
    /\ retry[p].pc = "thrown"
    /\ retry[p].errs # <<>>

\* C20 as stated: a live operation that failed in transport threw the very error of
\* its last transport call; a failure with a non-retryable status came after exactly
\* one transport call, failures with retryable statuses only after maxRetries + 1; and
\* readsUsed and writesUsed are as they were when the operation was called.
C20_TransportErrorUnchanged ==
    \A p \in Procs :
        LET o == ops[p]
            r == retry[p]
        IN  FailedInTransport(p) =>
              /\ o.error = r.errs[Len(r.errs)]
              /\ o.error.id = r.calls
              /\ ~IsRetryable(r.errs[1].statusCode) => o.fetches = 1
              /\ AllRetryable(r) => o.fetches = r.config.maxRetries + 1
              /\ o.after.readsUsed = o.before.readsUsed
              /\ o.after.writesUsed = o.before.writesUsed

\* C20 amended: a live operation that failed in transport threw the very error of the
\* last transport call of the request that failed, status code, endpoint and reset
\* time included; a non-retryable status came after exactly one transport call of
\* that request, retryable statuses only after maxRetries + 1; the failed request
\* recorded nothing, so writesUsed is as at the call and readsUsed has grown by the
\* requests that succeeded before it: by none for getUserTimeline, searchRecent and
\* createTweet, by the chunks already fetched for getTweets.
C20_TransportErrorOfRequest ==
    \A p \in Procs :
        LET o == ops[p]
            r == retry[p]
        IN  FailedInTransport(p) =>
              /\ o.error = r.errs[Len(r.errs)]
              /\ o.error.id = r.calls
              /\ r.calls = Len(r.errs)
              /\ ~IsRetryable(r.errs[1].statusCode) => r.calls = 1
              /\ AllRetryable(r) => r.calls = r.config.maxRetries + 1
              /\ o.op.kind # "getTweets" => Len(o.requests) = 1
              /\ o.after.readsUsed = o.before.readsUsed + (Len(o.requests) - 1)
              /\ o.after.writesUsed = o.before.writesUsed

C20_Witness ==
    \E p \in Procs :
        /\ FailedInTransport(p)
        /\ ops[p].op.kind = "getUserTimeline"
        /\ Len(retry[p].errs) = 2
        /\ ops[p].error.statusCode = 429
        /\ ops[p].error.rateLimitReset = <<2000>>
        /\ ops[p].error.endpoint = <<"GET", <<"2", "users", "u1", ":id">>>>
        /\ ops[p].fetches = 2
        /\ ops[p].after.readsUsed = ops[p].before.readsUsed

\* C23: isRetryable(statusCode) is true iff statusCode is 429 or one of 500, 501,
\* 502, 503, 504; it is false for every other code, the 2xx codes, 400, 401, 403,
\* 404, 422 and 505 and above among them.
C23_IsRetryable ==
    last.op = "isRetryable" =>
        /\ last.ret <=> last.arg \in {429, 500, 501, 502, 503, 504}
        /\ (last.arg \in 200 .. 299 \cup {400, 401, 403, 404, 422} \/ last.arg >= 505)
              => ~last.ret

C23_Witness == last.op = "isRetryable" /\ last.arg = 501 /\ last.ret = TRUE

\* The arguments of a calculateDelay call, <<attempt, config>>, with a multiplier of
\* so many halves: 2^attempt, and baseDelay * multiplier^attempt and the capped delay
\* min(baseDelay * multiplier^attempt, maxDelay) as multiples of 1 / 2^attempt.
ScaleOf(arg) == Pow(2, arg[1])
ExponentialOf(arg) == arg[2].baseDelayMs * Pow(arg[2].backoffMultiplier \div 50, arg[1])
CappedOf(arg) ==
    IF ExponentialOf(arg) < arg[2].maxDelayMs * ScaleOf(arg) THEN ExponentialOf(arg)
    ELSE arg[2].maxDelayMs * ScaleOf(arg)

\* capped = 3 included.
C25_JitterWithinQuarter ==
    (last.op = "calculateDelay" /\ last.arg[2].jitter) =>
        /\ 4 * last.ret * ScaleOf(last.arg) >= 3 * CappedOf(last.arg)
        /\ 4 * last.ret * ScaleOf(last.arg) <= 5 * CappedOf(last.arg)

\* C25 (amended): with jitter, every value calculateDelay(a, config) returns is a whole
\* number of milliseconds within half a millisecond of [0.75 * capped, 1.25 * capped],
\* and inside that interval whenever capped is a multiple of 4.
C25_JitterWithinRoundedQuarter ==
    (last.op = "calculateDelay" /\ last.arg[2].jitter) =>
        /\ last.ret >= 0
        /\ 4 * last.ret * ScaleOf(last.arg) >= 3 * CappedOf(last.arg) - 2 * ScaleOf(last.arg)
        /\ 4 * last.ret * ScaleOf(last.arg) <= 5 * CappedOf(last.arg) + 2 * ScaleOf(last.arg)
        /\ CappedOf(last.arg) % (4 * ScaleOf(last.arg)) = 0 =>
              /\ 4 * last.ret * ScaleOf(last.arg) >= 3 * CappedOf(last.arg)
              /\ 4 * last.ret * ScaleOf(last.arg) <= 5 * CappedOf(last.arg)

C25_Witness ==
    /\ last.op = "calculateDelay" /\ last.arg[2].jitter
    /\ CappedOf(last.arg) = 3 * ScaleOf(last.arg) /\ last.ret = 4

\* The header map holds key, in whatever case its name is written.
HasHeader(headers, key) == \E n \in DOMAIN headers : LowerCase(n) = key

\* The header map with its keys in lower case.
LowerCaseForm(headers) ==
    [k \in { LowerCase(n) : n \in DOMAIN headers } |->
        headers[CHOOSE n \in DOMAIN headers : LowerCase(n) = k]]

\* C26: parseRateLimitHeaders(headers) returns none iff at least one of
\* x-rate-limit-limit, x-rate-limit-remaining, x-rate-limit-reset is absent, the keys
\* matched whatever their case (a map with X-Rate-Limit-* keys parses like its
\* lower-case form); otherwise it returns limit and remaining as integers and
\* resetAt = reset seconds * 1000 ms.
C26_ParseRateLimitHeaders ==
    last.op = "parseRateLimitHeaders" =>
        LET lower == LowerCaseForm(last.arg)
            allThree == /\ HasHeader(last.arg, "x-rate-limit-limit")
                        /\ HasHeader(last.arg, "x-rate-limit-remaining")
                        /\ HasHeader(last.arg, "x-rate-limit-reset")
        IN  /\ last.ret = <<>> <=> ~allThree
            /\ allThree =>
                  last.ret = << [resetAt |-> ParseInt(lower["x-rate-limit-reset"]) * 1000,
                                 limit |-> ParseInt(lower["x-rate-limit-limit"]),
                                 remaining |-> ParseInt(lower["x-rate-limit-remaining"])] >>

\* C27: delayUntilReset(resetAt) is max(0, resetAt - now + 1000 ms) for every resetAt
\* and every clock value now, and it is never negative.
C27_DelayUntilReset ==
    last.op = "delayUntilReset" =>
        /\ last.ret = (IF last.arg - last.at + 1000 > 0 THEN last.arg - last.at + 1000 ELSE 0)
        /\ last.ret >= 0

C27_Witness ==
    /\ last.op = "delayUntilReset" /\ last.at = 2 /\ last.arg = 60000
    /\ last.ret = 60998

\* C28 (as claimed): delayUntilReset(resetAt) returns 0 whenever resetAt <= now, a
\* reset that passed less than 1000 ms ago included.
C28_ZeroAfterReset ==
    (last.op = "delayUntilReset" /\ last.arg <= last.at) => last.ret = 0

\* C28 (amended): delayUntilReset(resetAt) returns 0 whenever the reset time passed at
\* least 1000 ms ago (resetAt <= now - 1000); for a reset that passed less than
\* 1000 ms ago it returns what is left of the 1000 ms buffer, resetAt - now + 1000.
C28_ZeroAfterBuffer ==
    last.op = "delayUntilReset" =>
        /\ last.arg <= last.at - 1000 => last.ret = 0
        /\ (last.arg > last.at - 1000 /\ last.arg <= last.at) =>
              /\ last.ret = last.arg - last.at + 1000
              /\ last.ret > 0 /\ last.ret <= 1000

C28_Witness ==
    /\ last.op = "delayUntilReset" /\ last.at = 1
    /\ last.arg = -999 /\ last.ret = 0

\* Activation p of withRetry goes from a failed attempt to the wait before the next.
StartsSleep(p) == retry[p].pc = "awaitFn" /\ retry'[p].pc = "sleep"

\* C29 (as claimed): before each retry, withRetry waits delayUntilReset of the error's
\* reset time whenever the error of the failed attempt carries a reset time, whatever
\* its retryable status, and calculateDelay(attempt, config) only when it carries none.
C29_ResetDelayWheneverKnown ==
    [][\A p \in Procs : StartsSleep(p) =>
          LET err == retry'[p].lastError
          IN  IF err.rateLimitReset # NoReset
              THEN retry'[p].delay = DelayUntilReset(err.rateLimitReset[1], now)
              ELSE retry'[p].delay \in CalculateDelay(retry[p].attempt, retry[p].config)]_vars

\* C29 (amended): before each retry, withRetry waits delayUntilReset of the error's
\* reset time whenever the failed attempt's error has status 429 and carries a reset
\* time; it waits calculateDelay(attempt, config) when the error carries no reset
\* time and when its status is one of 500..504, with or without a reset time.
C29_ResetDelayFor429 ==
    [][\A p \in Procs : StartsSleep(p) =>
          LET err == retry'[p].lastError
          IN  /\ err = retry'[p].errs[Len(retry'[p].errs)]
              /\ IF err.statusCode = 429 /\ err.rateLimitReset # NoReset
                 THEN retry'[p].delay = DelayUntilReset(err.rateLimitReset[1], now)
                 ELSE retry'[p].delay \in CalculateDelay(retry[p].attempt, retry[p].config)]_vars

C29_Witness ==
    \E p \in Procs :
        /\ retry[p].pc = "sleep" /\ retry[p].attempt = 1
        /\ retry[p].lastError.statusCode = 503 /\ retry[p].lastError.rateLimitReset = <<2>>
        /\ retry[p].delay = 4 /\ ~retry[p].config.jitter

\* C30: in a withRetry run given a hook, the events come in the order failure(i),
\* onRetry(i, delay_i, error_i), sleep(delay_i), invocation(i + 1): the i-th hook call
\* has the 0-based attempt index, the delay that is then slept and the error of the
\* i-th invocation; an invocation starts only when every sleep before it is over;
\* no hook call and no sleep follows the last failing attempt, so that in a run in
\* which fn was invoked, hook calls = sleeps = invocations - 1 once it has ended.
C30_HookSleepOrder ==
    \A p \in Procs :
        LET r == retry[p]
        IN  r.onRetry =>
              /\ \A i \in 1 .. Len(r.hooks) :
                    /\ r.hooks[i][1] = i - 1
                    /\ r.hooks[i][3] = r.errs[i]
                    /\ i <= Len(r.sleeps) => r.sleeps[i] = r.hooks[i][2]
              /\ r.pc = "sleep" =>
                    /\ Len(r.hooks) = r.calls /\ Len(r.sleeps) = r.calls - 1
                    /\ Len(r.errs) = r.calls
                    /\ r.hooks[r.calls] = <<r.attempt, r.delay, r.lastError>>
              /\ r.pc = "awaitFn" =>
                    /\ Len(r.hooks) = r.calls - 1 /\ Len(r.sleeps) = r.calls - 1
                    /\ Len(r.errs) = r.calls - 1
              /\ (r.pc \in {"returned", "thrown"} /\ r.calls >= 1) =>
                    /\ Len(r.hooks) = r.calls - 1 /\ Len(r.sleeps) = r.calls - 1

C30_Witness ==
    \E p \in Procs :
        /\ retry[p].onRetry /\ retry[p].pc = "thrown" /\ retry[p].calls = 3
        /\ Len(retry[p].hooks) = 2 /\ Len(retry[p].sleeps) = 2
        /\ retry[p].hooks[2][1] = 1 /\ retry[p].hooks[2][2] = retry[p].sleeps[2]
        /\ retry[p].hooks[1][3].statusCode = 429 /\ retry[p].hooks[2][3].statusCode = 503

\* The response carries all three rate-limit headers.
CarriesRateLimit(resp) ==
    /\ HasHeader(ObjectOf(resp.headers), "x-rate-limit-limit")
    /\ HasHeader(ObjectOf(resp.headers), "x-rate-limit-remaining")
    /\ HasHeader(ObjectOf(resp.headers), "x-rate-limit-reset")

\* The snapshot of a response that carries them, under endpoint, for a client with or
\* without a user access token.
SnapshotOf(resp, endpoint, userAccessToken) ==
    LET h == HeaderEntries(resp.headers)
    IN  [endpoint |-> endpoint,
         remaining |-> ParseInt(h["x-rate-limit-remaining"]),
         resetAt |-> ToISOString(ParseInt(h["x-rate-limit-reset"]) * 1000),
         limit |-> ParseInt(h["x-rate-limit-limit"]),
         scope |-> IF userAccessToken THEN "user" ELSE "app"]

\* The endpoint a caller's request is stored under.
RequestEndpoint(p) == EndpointOf(MethodOf(ops[p].op), PathOf(ops[p].op))

\* C21: getRateLimitState(endpoint) is none for every endpoint when the client is made;
\* a response that carries all three rate-limit headers, be it a success, an error or
\* the answer to a retried attempt, replaces the snapshot of its endpoint by its own
\* {remaining, limit, resetAt, scope} and leaves the other endpoints alone; a response
\* that misses one of the headers, and every step that is not a response, changes
\* nothing.  So the snapshot returned is that of the latest such response.
C21_LastRateLimitWins ==
    /\ rateLimitStates = EmptyMap
    /\ [][/\ \A p \in Procs : \A resp \in LimitResponses :
                Respond(p, resp) =>
                   IF CarriesRateLimit(resp)
                   THEN /\ GetRateLimitState(rateLimitStates', RequestEndpoint(p)) =
                              << SnapshotOf(resp, RequestEndpoint(p), client.userAccessToken) >>
                        /\ \A e \in (DOMAIN rateLimitStates \cup DOMAIN rateLimitStates')
                                        \ {RequestEndpoint(p)} :
                              GetRateLimitState(rateLimitStates', e) =
                                 GetRateLimitState(rateLimitStates, e)
                   ELSE rateLimitStates' = rateLimitStates
          /\ (\A p \in Procs : \A resp \in LimitResponses : ~Respond(p, resp))
                => rateLimitStates' = rateLimitStates]_vars

C21_Witness ==
    \E p \in Procs :
        /\ ops[p].pc = "done" /\ ops[p].outcome = "ok" /\ ops[p].op.kind = "searchRecent"
        /\ Len(retry[p].errs) = 1 /\ retry[p].errs[1].statusCode = 429
        /\ retry[p].errs[1].rateLimitReset = <<2000>>
        /\ GetRateLimitState(rateLimitStates, EndpointOf("GET", SearchPath)) # <<>>
        /\ rateLimitStates[EndpointOf("GET", SearchPath)].remaining = 450
        /\ rateLimitStates[EndpointOf("GET", SearchPath)].resetAt = ToISOString(17000)

\* The endpoint signatures of the four operations: method and path template.
EndpointTemplates ==
    { <<"GET", <<"2", "users", ":id", "tweets">>>>, <<"GET", <<"2", "tweets">>>>,
      <<"GET", <<"2", "tweets", "search", "recent">>>>, <<"POST", <<"2", "tweets">>>> }

\* C22: rate-limit state is kept under method + path template, the path parameters
\* collapsed to :id and the literal segments kept: getUserTimeline of every userId
\* under GET /2/users/:id/tweets, getTweets under GET /2/tweets, searchRecent under
\* GET /2/tweets/search/recent, createTweet under POST /2/tweets; getRateLimitState
\* with that key returns the stored snapshot.
C22_EndpointTemplates ==
    /\ \A e \in DOMAIN rateLimitStates :
          /\ e \in EndpointTemplates
          /\ GetRateLimitState(rateLimitStates, e) = <<rateLimitStates[e]>>
    /\ \A p \in Procs :
          (ops[p].pc = "done" /\ ops[p].outcome = "ok" /\ rateLimitStates # EmptyMap
             /\ \A e \in DOMAIN rateLimitStates : e = RequestEndpoint(p))
            => GetRateLimitState(rateLimitStates, QuotaEndpointOf(ops[p].op)) # <<>>

\* C31: getCacheHitRate() is 0 when totalRequests is 0 and otherwise
\* cacheHits / totalRequests rounded to 4 decimals (within half a ten-thousandth of
\* the quotient), so 0.6667 after 2 cache hits and 1 read; recordCacheHit() adds 1 to
\* cacheHits and to totalRequests, recordReads(n) and recordWrites(n) add n to
\* totalRequests and nothing to cacheHits; with counts that are not negative
\* cacheHits <= totalRequests in every state (it holds of a new tracker, and a call
\* other than a record of a negative count keeps it), and the rate is then within
\* [0, 1].
C31_CacheHitRate ==
    /\ quota.cacheHits >= 0
    /\ last.op = "new" => quota.cacheHits <= quota.totalRequests
    /\ (/\ last.pre.cacheHits <= last.pre.totalRequests
        /\ ~(last.op \in {"recordReads", "recordWrites"} /\ last.arg < 0))
       => quota.cacheHits <= quota.totalRequests
    /\ last.op = "getCacheHitRate" =>
          LET hits == quota.cacheHits
              total == quota.totalRequests
              diff == last.ret * total - 10000 * hits
          IN  /\ total = 0 => last.ret = 0
              /\ total > 0 => (2 * diff <= total /\ 0 - 2 * diff <= total)
              /\ (hits = 2 /\ total = 3) => last.ret = 6667
              /\ hits <= total => (last.ret >= 0 /\ last.ret <= 10000)
    /\ last.op = "getState" => last.ret.cacheHitRate = GetCacheHitRate(quota)
    /\ last.op = "recordCacheHit" =>
          /\ quota.cacheHits = last.pre.cacheHits + 1
          /\ quota.totalRequests = last.pre.totalRequests + 1
    /\ last.op \in {"recordReads", "recordWrites"} =>
          /\ quota.cacheHits = last.pre.cacheHits
          /\ quota.totalRequests = last.pre.totalRequests + last.arg

C31_Witness ==
    /\ last.op = "getCacheHitRate"
    /\ quota.cacheHits = 2 /\ quota.totalRequests = 3 /\ quota.readsUsed = 1
    /\ last.ret = 6667

\* C32: with several read operations of a live client in flight at once, interleaved
\* at the await between the canRead check and recordReads, readsUsed never exceeds
\* readCap * (1 - reservePercent).
C32_ReserveKept ==
    ~client.mockMode =>
        quota.readsUsed * 100 <= quota.config.monthlyReadCap * (100 - quota.config.reservePercent)

\* C33: once the clock has reached the reset date, the operations of a live client are
\* gated against the counters of the new period, which are 0: an operation called
\* then is admitted (it goes on to its request), whatever was used in the old period
\* and without a call of getQuotaState or getQuotaLevel before it.
C33_AdmittedAfterRollover ==
    [][\A p \in Procs : \A op \in RolloverOps :
          (Call(p, op) /\ ~client.mockMode /\ now >= quota.resetDate)
             => ops'[p].pc = "request"]_vars

\* C34: withRetry goes by the error's own retryable field: once fn has failed with an
\* error whose retryable field is false, whatever its status code (429 and 500..504
\* included), withRetry has thrown that error and fn is not invoked again, so that a
\* failure of the first invocation means one invocation.
C34_RetryableFlagDecides ==
    \A p \in Procs :
        LET r == retry[p]
        IN  \A i \in 1 .. Len(r.errs) :
                ~r.errs[i].retryable =>
                    /\ i = Len(r.errs)
                    /\ r.pc = "thrown"
                    /\ r.thrown = r.errs[i]
                    /\ r.calls = i

\* What operation o has recorded so far on tracker q: the growth of readsUsed for a
\* read, of writesUsed for createTweet, provided the other counter is as at the call.
RecordedUnits(o, q) ==
    IF o.op.kind = "createTweet"
    THEN IF q.readsUsed = o.before.readsUsed THEN q.writesUsed - o.before.writesUsed ELSE -1
    ELSE IF q.writesUsed = o.before.writesUsed THEN q.readsUsed - o.before.readsUsed ELSE -1

\* C35: every request of a live operation makes at most maxRetries + 1 transport
\* calls, so an operation of k requests makes at most k * (maxRetries + 1), and
\* getTweets makes at most one request per chunk; while a request is in flight, its
\* failed attempts included, only the requests completed before it are recorded; and
\* an operation of one request (one chunk, timeline, search, create) that succeeded
\* after r failed attempts made r + 1 <= maxRetries + 1 transport calls and recorded
\* exactly 1 unit, a getTweets over k chunks exactly k.
C35_RetriesRecordOnce ==
    \A p \in Procs :
        LET o == ops[p]
            r == retry[p]
            m == client.retryConfig.maxRetries
        IN  (~client.mockMode /\ o.pc # "idle") =>
              /\ o.fetches <= Len(o.requests) * (m + 1)
              /\ o.op.kind = "getTweets" =>
                    /\ Len(o.requests) <= Len(o.chunks)
                    /\ o.fetches <= Len(o.chunks) * (m + 1)
              /\ o.op.kind # "getTweets" => Len(o.requests) <= 1
              /\ o.pc = "request" =>
                    /\ r.calls <= m + 1
                    /\ RecordedUnits(o, quota) = Len(o.requests) - 1
              /\ (o.pc = "done" /\ o.outcome = "ok") =>
                    /\ RecordedUnits(o, o.after) = Len(o.requests)
                    /\ Len(o.requests) = 1 =>
                          /\ r.pc = "returned"
                          /\ o.fetches = Len(r.errs) + 1
                          /\ o.fetches <= m + 1
                          /\ RecordedUnits(o, o.after) = 1

C35_Witness ==
    \E p \in Procs :
        /\ ~client.mockMode
        /\ ops[p].op.kind = "searchRecent"
        /\ ops[p].pc = "done" /\ ops[p].outcome = "ok"
        /\ Len(retry[p].errs) = 1 /\ retry[p].errs[1].statusCode = 503
        /\ ops[p].fetches = 2
        /\ ops[p].after.readsUsed = ops[p].before.readsUsed + 1
        /\ quota.readsUsed = ops[p].after.readsUsed

\* C36: a live getTweets that has failed at chunk j, at the quota gate or with the
\* error of its transport call (an error status, a fetch that rejected, a body that
\* is not JSON), leaves readsUsed larger by exactly j - 1 than at the call and
\* writesUsed as it was: the j - 1 chunks fetched before stay recorded and the
\* failing chunk records nothing.  The gate is checked before every chunk: a
\* request is made only while canRead(1) holds, and a failure at the gate comes
\* after j - 1 requests, with canRead(1) false.
C36_ChunkFailureKeepsReads ==
    \A p \in Procs :
        LET o == ops[p]
            j == o.i
            atGate == o.error = QuotaError(o.op)
            inTransport == retry[p].pc = "thrown" /\ o.error = retry[p].thrown
        IN  (~client.mockMode /\ o.op.kind = "getTweets" /\ o.pc # "idle") =>
              /\ o.pc = "request" =>
                    /\ CanRead(quota, 1)
                    /\ Len(o.requests) = j
                    /\ quota.readsUsed = o.before.readsUsed + (j - 1)
              /\ (o.pc = "done" /\ o.outcome = "error" /\ (atGate \/ inTransport)) =>
                    /\ j >= 1 /\ j <= Len(o.chunks)
                    /\ o.after.readsUsed = o.before.readsUsed + (j - 1)
                    /\ o.after.writesUsed = o.before.writesUsed
                    /\ quota.readsUsed = o.after.readsUsed
                    /\ IF atGate
                       THEN Len(o.requests) = j - 1 /\ ~CanRead(o.after, 1)
                       ELSE Len(o.requests) = j

C36_Witness ==
    \E p \in Procs :
        /\ ~client.mockMode
        /\ ops[p].op.kind = "getTweets" /\ Len(ops[p].chunks) = 3
        /\ ops[p].pc = "done" /\ ops[p].outcome = "error"
        /\ ops[p].error = QuotaError(ops[p].op)
        /\ ops[p].i = 3 /\ Len(ops[p].requests) = 2
        /\ ops[p].before.readsUsed = 2 /\ ops[p].after.readsUsed = 4

\* The levels in order of severity.
Severity(level) ==
    CASE level = "normal" -> 0
      [] level = "warning" -> 1
      [] level = "critical" -> 2
      [] level = "exhausted" -> 3

\* getPollingMultiplier() of tracker q1 is at most that of q2 (Infinity is the largest).
MultiplierAtMost(q1, q2) ==
    IF GetLevel(q2) = "exhausted" THEN TRUE
    ELSE IF GetLevel(q1) = "exhausted" THEN FALSE
    ELSE GetPollingMultiplier(q1) <= GetPollingMultiplier(q2)

\* The call recorded in last left the period as it was: it is not the construction,
\* reset(), loadState() or a checkAndReset() that reset (called directly or by the
\* client's quota queries).
WithinPeriod ==
    /\ last.op \notin {"new", "reset", "loadState"}
    /\ ~(last.op = "checkAndReset" /\ last.ret = TRUE)
    /\ ~(last.op \in {"getQuotaState", "getQuotaLevel"} /\ last.at >= last.pre.resetDate)

\* C37: a call within a period, recordReads, recordWrites (with counts that are not
\* negative), recordCacheHit, setActiveUsers and the queries among them, leaves
\* getLevel() at the same or a more severe level and getPollingMultiplier() equal or
\* larger; a tracker that is exhausted stays exhausted.
C37_LevelNeverEases ==
    (WithinPeriod /\ ~(last.op \in {"recordReads", "recordWrites"} /\ last.arg < 0)) =>
        /\ Severity(GetLevel(quota)) >= Severity(GetLevel(last.pre))
        /\ MultiplierAtMost(last.pre, quota)
        /\ GetLevel(last.pre) = "exhausted" => GetLevel(quota) = "exhausted"
        /\ last.op \in {"recordWrites", "recordCacheHit", "setActiveUsers"} =>
              GetLevel(quota) = GetLevel(last.pre)

C37_Witness ==
    /\ last.op = "recordReads" /\ last.arg = 1
    /\ last.pre.readsUsed = 15000 /\ GetLevel(last.pre) = "exhausted"
    /\ quota.readsUsed = 15001 /\ GetLevel(quota) = "exhausted"
    /\ GetPollingMultiplier(quota) = "Infinity"

\* C38: in every state, the counts being whole numbers, getLevel() is exhausted iff
\* canSystemRead(1) is false iff getRemainingReads() is 0; getRemainingReads() is
\* max(0, readCap - readsUsed), never negative, also with readsUsed above the cap;
\* and when canRead(1) is true the level is not exhausted.
C38_LevelGatesRemainingAgree ==
    LET cap == quota.config.monthlyReadCap
        left == IF cap - quota.readsUsed > 0 THEN cap - quota.readsUsed ELSE 0
    IN  /\ (GetLevel(quota) = "exhausted") <=> ~CanSystemRead(quota, 1)
        /\ ~CanSystemRead(quota, 1) <=> (GetRemainingReads(quota) = 0)
        /\ GetRemainingReads(quota) = left
        /\ GetRemainingReads(quota) >= 0
        /\ CanRead(quota, 1) => GetLevel(quota) # "exhausted"
        /\ last.op = "getRemainingReads" => last.ret = left
        /\ last.op = "getLevel" => (last.ret = "exhausted" <=> left = 0)
        /\ (last.op = "canSystemRead" /\ last.arg = 1) => (last.ret = FALSE <=> left = 0)
        /\ (last.op = "canRead" /\ last.arg = 1 /\ last.ret = TRUE) => left > 0

\* The query methods of the tracker.
QueryOps ==
    {"getState", "getLevel", "canRead", "canSystemRead", "canWrite", "getFairShareReads",
     "getRemainingReads", "getRemainingWrites", "getCacheHitRate", "getPollingMultiplier",
     "getStatusMessage"}

\* C39: a query of the tracker (getState, getLevel, canRead, canSystemRead, canWrite,
\* getFairShareReads, getRemainingReads, getRemainingWrites, getCacheHitRate,
\* getPollingMultiplier, getStatusMessage) leaves readsUsed, writesUsed, cacheHits,
\* totalRequests, activeUsers and the reset date as they were, and what it returns is
\* computed from the counters, the configuration and the reset date of the moment.
C39_QueriesChangeNothing ==
    last.op \in QueryOps =>
        /\ quota.readsUsed = last.pre.readsUsed
        /\ quota.writesUsed = last.pre.writesUsed
        /\ quota.cacheHits = last.pre.cacheHits
        /\ quota.totalRequests = last.pre.totalRequests
        /\ quota.activeUsers = last.pre.activeUsers
        /\ quota.resetDate = last.pre.resetDate
        /\ quota.config = last.pre.config
        /\ last.ret =
              CASE last.op = "getState" -> GetState(quota)
                [] last.op = "getLevel" -> GetLevel(quota)
                [] last.op = "canRead" -> CanRead(quota, last.arg)
                [] last.op = "canSystemRead" -> CanSystemRead(quota, last.arg)
                [] last.op = "canWrite" -> CanWrite(quota, last.arg)
                [] last.op = "getFairShareReads" -> GetFairShareReads(quota)
                [] last.op = "getRemainingReads" -> GetRemainingReads(quota)
                [] last.op = "getRemainingWrites" -> GetRemainingWrites(quota)
                [] last.op = "getCacheHitRate" -> GetCacheHitRate(quota)
                [] last.op = "getPollingMultiplier" -> GetPollingMultiplier(quota)
                [] last.op = "getStatusMessage" -> GetStatusMessage(quota)

C39_Witness ==
    /\ last.op = "getStatusMessage"
    /\ quota.readsUsed = 13500 /\ quota.cacheHits = 1 /\ quota.totalRequests = 13501
    /\ quota = last.pre
    /\ last.ret[1] = "critical" /\ last.ret[2] = 1500

=============================================================================
